---- MODULE Spec2Model ----
(***************************************************************************)
(* The catalog store of FLprod (src/hooks/useDataStore.tsx): two catalogs  *)
(* (books, movies), each a record of five ordered buckets, mutated by add, *)
(* update, delete, reorder and bulk import.  Every handler is one action:  *)
(* the state updaters it queues with setBooks / setMovies are applied in   *)
(* the order they were queued, and notifyStateChange is counted where the  *)
(* updater calls it.  A notification is a timer (setTimeout of 0 ms) that  *)
(* the event loop fires in a later turn.  generateComprehensiveExport      *)
(* writes the catalogs out as text, and parseImportText of the import      *)
(* modal (src/unnamed/part_001) reads such a text back into candidates.    *)
(* The modal has a state of its own (modal) and parses in a timer of its   *)
(* own, one second after the parse button was pressed.                     *)
(***************************************************************************)
EXTENDS Integers, Sequences, FiniteSets, TLC

VARIABLES books, movies, bookGoal, movieGoal, globalStateVersion,
          stateChangeListeners, timers, received, crashed, calls, lastCall, issued,
          modal

vars == <<books, movies, bookGoal, movieGoal, globalStateVersion,
          stateChangeListeners, timers, received, crashed, calls, lastCall, issued,
          modal>>

(***************************************************************************)
(* Bounds of the model.                                                    *)
(***************************************************************************)
\* calls of the store's handlers in one run
MaxCalls == 2
\* the random salt of an id is drawn from 0 .. MaxRandom
MaxRandom == 1
\* the most items handed to one importItems call
MaxBatch == 2

(***************************************************************************)
(* Values.  A JavaScript string is the sequence of its characters, so that *)
(* toLowerCase is computed and not assumed.  An absent optional number is  *)
(* Undefined; an absent category is the empty string (falsy, as undefined  *)
(* is); an absent isAllTime is FALSE (the code only tests its truthiness). *)
(***************************************************************************)
Undefined == -1
NoCategory == ""

\* Object.keys(prevBooks), in the order the object literal lists them
CategoryKeys == <<"completed", "inProgress", "planned", "fails", "allTime">>
Categories == {CategoryKeys[i] : i \in DOMAIN CategoryKeys}

\* an array element that is `undefined` (what splice leaves when it moved nothing)
undefined == [undefined |-> TRUE]
IsHole(x) == x = undefined
HasHole(items) == \E i \in DOMAIN items : IsHole(items[i])

Item(id, title, author, category, percentage, isAllTime) ==
  [id |-> id, title |-> title, author |-> author, category |-> category,
   percentage |-> percentage, isAllTime |-> isAllTime]

UpperCase == <<"A", "B", "C", "D", "E", "F", "G", "H", "I", "J", "K", "L", "M",
               "N", "O", "P", "Q", "R", "S", "T", "U", "V", "W", "X", "Y", "Z">>
LowerCase == <<"a", "b", "c", "d", "e", "f", "g", "h", "i", "j", "k", "l", "m",
               "n", "o", "p", "q", "r", "s", "t", "u", "v", "w", "x", "y", "z">>

\* String.prototype.toLowerCase on the characters the model uses
toLowerCase(s) ==
  [i \in DOMAIN s |->
     IF \E k \in DOMAIN UpperCase : UpperCase[k] = s[i]
     THEN LowerCase[CHOOSE k \in DOMAIN UpperCase : UpperCase[k] = s[i]]
     ELSE s[i]]

\* x || y on an optional number: 0 and undefined are falsy
Falsy(x) == x = Undefined \/ x = 0

Min(a, b) == IF a < b THEN a ELSE b
Max(a, b) == IF a > b THEN a ELSE b

\* the items of the initial catalogs: the fields the handlers read (Item) and
\* the fields they copy along, which the export prints
initialBooks ==
  [ completed |-> <<
      Item(1, <<"T", "h", "e", " ", "W", "a", "g", "e", "r">>,
           <<"D", "a", "v", "i", "d", " ", "G", "r", "a", "n", "n">>,
           "completed", Undefined, FALSE)
        @@ [ year |-> 2024,
              rating |-> 4,
              format |-> <<"t", "e", "x", "t">>,
              completedDate |-> <<"2", "0", "2", "4", "-", "0", "1", "-", "1", "5">> ]
      , Item(2, <<"T", "h", "e", " ", "D", "e", "v", "i", "l", "'", "s", " ", "S", "t", "a", "r">>,
           <<"J", "o", " ", "N", "e", "s", "b", "o">>,
           "completed", Undefined, FALSE)
        @@ [ year |-> 2024,
              rating |-> 3,
              format |-> <<"t", "e", "x", "t">>,
              completedDate |-> <<"2", "0", "2", "4", "-", "0", "2", "-", "1", "0">> ]
    >>
  , inProgress |-> <<
      Item(100, <<"J", "a", "m", "e", "s">>,
           <<"P", "e", "r", "c", "i", "v", "a", "l", " ", "E", "v", "e", "r", "e", "t", "t">>,
           "inProgress", 50, FALSE)
        @@ [ year |-> 2025,
              format |-> <<"t", "e", "x", "t">>,
              dateStarted |-> <<"2", "0", "2", "5", "-", "0", "1", "-", "2", "0">> ]
    >>
  , planned |-> <<
      Item(200, <<"P", "r", "o", "j", "e", "c", "t", " ", "H", "a", "i", "l", " ", "M", "a", "r", "y">>,
           <<"A", "n", "d", "y", " ", "W", "e", "i", "r">>,
           "planned", Undefined, FALSE)
        @@ [ year |-> 2025,
              format |-> <<"t", "e", "x", "t">>,
              dateAdded |-> <<"2", "0", "2", "5", "-", "0", "1", "-", "2", "0">> ]
    >>
  , fails |-> <<
      Item(300, <<"F", "i", "r", "s", "t", " ", "L", "i", "f", "e">>,
           <<"U", "n", "k", "n", "o", "w", "n">>,
           "fails", 5, FALSE)
        @@ [ year |-> 2024,
              format |-> <<"t", "e", "x", "t">>,
              dateAbandoned |-> <<"2", "0", "2", "4", "-", "0", "3", "-", "1", "5">> ]
    >>
  , allTime |-> <<
      Item(400, <<"T", "h", "e", " ", "L", "o", "r", "d", " ", "o", "f", " ", "t", "h", "e", " ", "R", "i", "n", "g", "s">>,
           <<"J", ".", "R", ".", "R", ".", " ", "T", "o", "l", "k", "i", "e", "n">>,
           "allTime", Undefined, TRUE)
        @@ [ year |-> 2023,
              rating |-> 5,
              format |-> <<"t", "e", "x", "t">>,
              completedDate |-> <<"2", "0", "2", "3", "-", "0", "8", "-", "1", "5">>,
              notes |-> <<"L", "i", "f", "e", "-", "c", "h", "a", "n", "g", "i", "n", "g", " ", "e", "p", "i", "c", " ", "f", "a", "n", "t", "a", "s", "y">> ]
    >>
  ]

initialMovies ==
  [ completed |-> <<
      Item(1, <<"O", "p", "p", "e", "n", "h", "e", "i", "m", "e", "r">>,
           <<"C", "h", "r", "i", "s", "t", "o", "p", "h", "e", "r", " ", "N", "o", "l", "a", "n">>,
           "completed", Undefined, FALSE)
        @@ [ year |-> 2023,
              rating |-> 5,
              format |-> <<"t", "h", "e", "a", "t", "e", "r">>,
              completedDate |-> <<"2", "0", "2", "3", "-", "0", "7", "-", "2", "1">> ]
      , Item(2, <<"D", "u", "n", "e", ":", " ", "P", "a", "r", "t", " ", "T", "w", "o">>,
           <<"D", "e", "n", "i", "s", " ", "V", "i", "l", "l", "e", "n", "e", "u", "v", "e">>,
           "completed", Undefined, FALSE)
        @@ [ year |-> 2024,
              rating |-> 4,
              format |-> <<"t", "h", "e", "a", "t", "e", "r">>,
              completedDate |-> <<"2", "0", "2", "4", "-", "0", "3", "-", "0", "1">> ]
    >>
  , inProgress |-> <<
      Item(100, <<"T", "h", "e", " ", "L", "o", "r", "d", " ", "o", "f", " ", "t", "h", "e", " ", "R", "i", "n", "g", "s", ":", " ", "E", "x", "t", "e", "n", "d", "e", "d", " ", "E", "d", "i", "t", "i", "o", "n">>,
           <<"P", "e", "t", "e", "r", " ", "J", "a", "c", "k", "s", "o", "n">>,
           "inProgress", 60, FALSE)
        @@ [ year |-> 2001,
              format |-> <<"b", "l", "u", "r", "a", "y">>,
              dateStarted |-> <<"2", "0", "2", "5", "-", "0", "1", "-", "2", "0">> ]
    >>
  , planned |-> <<
      Item(200, <<"B", "l", "a", "d", "e", " ", "R", "u", "n", "n", "e", "r", " ", "2", "0", "4", "9">>,
           <<"D", "e", "n", "i", "s", " ", "V", "i", "l", "l", "e", "n", "e", "u", "v", "e">>,
           "planned", Undefined, FALSE)
        @@ [ year |-> 2017,
              format |-> <<"s", "t", "r", "e", "a", "m", "i", "n", "g">>,
              dateAdded |-> <<"2", "0", "2", "5", "-", "0", "1", "-", "2", "0">> ]
    >>
  , fails |-> <<
      Item(300, <<"T", "h", "e", " ", "M", "a", "t", "r", "i", "x", " ", "R", "e", "s", "u", "r", "r", "e", "c", "t", "i", "o", "n", "s">>,
           <<"L", "a", "n", "a", " ", "W", "a", "c", "h", "o", "w", "s", "k", "i">>,
           "fails", 25, FALSE)
        @@ [ year |-> 2021,
              format |-> <<"s", "t", "r", "e", "a", "m", "i", "n", "g">>,
              dateAbandoned |-> <<"2", "0", "2", "4", "-", "0", "1", "-", "1", "0">> ]
    >>
  , allTime |-> <<
      Item(400, <<"T", "h", "e", " ", "G", "o", "d", "f", "a", "t", "h", "e", "r">>,
           <<"F", "r", "a", "n", "c", "i", "s", " ", "F", "o", "r", "d", " ", "C", "o", "p", "p", "o", "l", "a">>,
           "allTime", Undefined, TRUE)
        @@ [ year |-> 1972,
              rating |-> 5,
              format |-> <<"b", "l", "u", "r", "a", "y">>,
              completedDate |-> <<"2", "0", "2", "3", "-", "1", "2", "-", "2", "5">>,
              notes |-> <<"M", "a", "s", "t", "e", "r", "p", "i", "e", "c", "e", " ", "o", "f", " ", "c", "i", "n", "e", "m", "a">> ]
    >>
  ]

\* Date.now(): the calls of one run fall in the same millisecond, which is
\* later than every id of the initial catalogs
Epoch == 1000
Randoms == 0 .. MaxRandom

(***************************************************************************)
(* The inputs the handlers are called with.                                *)
(***************************************************************************)
Dune == <<"D", "u", "n", "e">>
DUNE == <<"D", "U", "N", "E">>
Herbert == <<"F", "r", "a", "n", "k", " ", "H", "e", "r", "b", "e", "r", "t">>
herbert == <<"f", "r", "a", "n", "k", " ", "h", "e", "r", "b", "e", "r", "t">>
Lynch == <<"D", "a", "v", "i", "d", " ", "L", "y", "n", "c", "h">>

\* an Omit<Book, 'id'> / Omit<Movie, 'id'>
Input(title, author, category, percentage, isAllTime) ==
  [title |-> title, author |-> author, category |-> category,
   percentage |-> percentage, isAllTime |-> isAllTime]

AddInputs ==
  { Input(Dune, Herbert, NoCategory, Undefined, FALSE),
    Input(DUNE, herbert, "planned", Undefined, TRUE),
    Input(Dune, Herbert, "completed", 50, FALSE),
    Input(Dune, Lynch, "completed", Undefined, TRUE),
    Input(Dune, Herbert, "allTime", Undefined, TRUE),
    Input(Dune, Herbert, "wishlist", Undefined, FALSE) }

ImportInputs ==
  { Input(Dune, Herbert, "planned", Undefined, TRUE),
    Input(DUNE, herbert, NoCategory, Undefined, FALSE) }

\* the updated item handed to update for the item `id`: the edit form passes
\* the item's own id; the fourth carries the id of the first completed item
UpdateInputs(id) ==
  { Item(id, Dune, Herbert, "completed", 50, TRUE),
    Item(id, Dune, Herbert, "allTime", Undefined, FALSE),
    Item(id, DUNE, herbert, "planned", Undefined, FALSE),
    Item(1, Dune, Lynch, "planned", Undefined, FALSE),
    Item(id, Dune, Herbert, "wishlist", Undefined, FALSE) }

(***************************************************************************)
(* Reading a catalog.                                                      *)
(***************************************************************************)
IdsIn(items) == {items[i].id : i \in {j \in DOMAIN items : ~IsHole(items[j])}}
IdsOf(catalog) == UNION {IdsIn(catalog[c]) : c \in Categories}
AnyHole(catalog) == \E c \in Categories : HasHole(catalog[c])

\* a comparison that forgets toLowerCase
SameWorkCaseSensitive(item, newItem) ==
  item.title = newItem.title /\ item.author = newItem.author

\* item.title.toLowerCase() === newItem.title.toLowerCase() && the same of author
SameWork(item, newItem) ==
  /\ toLowerCase(item.title) = toLowerCase(newItem.title)
  /\ toLowerCase(item.author) = toLowerCase(newItem.author)

\* items.filter(item => item.id !== id), on an array without holes
WithoutId(items, id) == SelectSeq(items, LAMBDA item : item.id # id)

(***************************************************************************)
(* The result of a state updater: the next catalog, how often it called    *)
(* notifyStateChange, whether it threw (a TypeError on reading a field of  *)
(* undefined, or on spreading undefined), and what it logged.              *)
(***************************************************************************)
Done(catalog, notified, log) ==
  [catalog |-> catalog, notified |-> notified, threw |-> FALSE, log |-> log]
Thrown(prev) ==
  [catalog |-> prev, notified |-> 0, threw |-> TRUE, log |-> "TypeError"]

\* a second updater queued behind a first: second is its result on the first
\* one's catalog, and counts if the first did not throw
Then(first, second) ==
  IF first.threw THEN first
  ELSE [catalog |-> second.catalog, notified |-> first.notified + second.notified,
        threw |-> second.threw, log |-> IF second.threw THEN second.log ELSE first.log]

(***************************************************************************)
(* add                                                                     *)
(***************************************************************************)
\* the new item add builds from its argument
newItem(item, timestamp, random) ==
  Item(timestamp + random, item.title, item.author,
       IF item.category = NoCategory THEN "planned" ELSE item.category,
       IF Falsy(item.percentage)
       THEN (IF item.category = "completed" THEN 100 ELSE 0)
       ELSE item.percentage,
       item.isAllTime)

\* categoryItems.some(item => same title and author): the index of the first
\* element that decides it, a hole (reading its title throws) or a match
FirstHit(items, new) ==
  LET hits == {i \in DOMAIN items : IF IsHole(items[i]) THEN TRUE ELSE SameWork(items[i], new)}
  IN  IF hits = {} THEN 0 ELSE CHOOSE i \in hits : \A j \in hits : i <= j

\* the first updater of add
addUpdater(prev, new) ==
  IF new.category \notin Categories THEN Done(prev, 0, "invalid category")
  ELSE LET items == prev[new.category]
           hit == FirstHit(items, new)
       IN  IF hit # 0 /\ IsHole(items[hit]) THEN Thrown(prev)
           ELSE IF hit # 0 THEN Done(prev, 0, "duplicate")
           ELSE Done([prev EXCEPT ![new.category] = Append(items, new)], 1, "added")

\* allTime: [...prev.allTime.filter(item => item.id !== new.id), { ...new, isAllTime: true }]
mirrorUpdater(prev, new) ==
  IF HasHole(prev.allTime) THEN Thrown(prev)
  ELSE Done([prev EXCEPT !.allTime =
               Append(WithoutId(prev.allTime, new.id), [new EXCEPT !.isAllTime = TRUE])],
            0, "mirrored")

add(prev, item, timestamp, random) ==
  LET new == newItem(item, timestamp, random)
      first == addUpdater(prev, new)
  IN  IF new.isAllTime /\ new.category # "allTime"
      THEN Then(first, mirrorUpdater(first.catalog, new))
      ELSE first

(***************************************************************************)
(* update                                                                  *)
(***************************************************************************)
\* the first updater of update: the scan for the id and the filter of every
\* bucket read the id of each element, and throw on a hole
moveUpdater(prev, id, updated) ==
  IF AnyHole(prev) THEN Thrown(prev)
  ELSE IF id \notin IdsOf(prev) THEN Done(prev, 0, "not found")
  ELSE IF updated.category \notin Categories THEN Thrown(prev)
  ELSE LET removed == [c \in Categories |-> WithoutId(prev[c], id)]
       IN  Done([removed EXCEPT ![updated.category] = Append(@, updated)], 1, "updated")

\* the second updater of update
favoriteUpdater(prev, updated) ==
  IF updated.isAllTime /\ updated.category # "allTime" THEN mirrorUpdater(prev, updated)
  ELSE IF ~updated.isAllTime
       THEN IF HasHole(prev.allTime) THEN Thrown(prev)
            ELSE Done([prev EXCEPT !.allTime = WithoutId(@, updated.id)], 0, "unmirrored")
       ELSE Done(prev, 0, "kept")

\* an update that leaves the favourites to a later call
moveOnly(prev, id, updated) == moveUpdater(prev, id, updated)

update(prev, id, updated) ==
  LET first == moveUpdater(prev, id, updated)
  IN  Then(first, favoriteUpdater(first.catalog, updated))

(***************************************************************************)
(* delete                                                                  *)
(***************************************************************************)
removeUpdater(prev, id, category) ==
  IF category \notin Categories THEN Thrown(prev)
  ELSE IF HasHole(prev[category]) THEN Thrown(prev)
  ELSE Done([prev EXCEPT ![category] = WithoutId(@, id)], 1, "deleted")

purgeUpdater(prev, id) ==
  IF HasHole(prev.allTime) THEN Thrown(prev)
  ELSE Done([prev EXCEPT !.allTime = WithoutId(@, id)], 0, "purged")

delete(prev, id, category) ==
  LET first == removeUpdater(prev, id, category)
  IN  Then(first, purgeUpdater(first.catalog, id))

(***************************************************************************)
(* reorder                                                                 *)
(***************************************************************************)
\* the index Array.prototype.splice starts at, for an array of length len
spliceStart(start, len) == IF start < 0 THEN Max(len + start, 0) ELSE Min(start, len)

\* const [movedItem] = items.splice(fromIndex, 1): <<what is left, movedItem>>
spliceOut(items, fromIndex) ==
  LET s == spliceStart(fromIndex, Len(items))
  IN  IF s < Len(items)
      THEN <<SubSeq(items, 1, s) \o SubSeq(items, s + 2, Len(items)), items[s + 1]>>
      ELSE <<items, undefined>>

\* items.splice(toIndex, 0, movedItem)
spliceIn(items, toIndex, movedItem) ==
  LET s == spliceStart(toIndex, Len(items))
  IN  SubSeq(items, 1, s) \o <<movedItem>> \o SubSeq(items, s + 1, Len(items))

\* a move that takes toIndex for an index of the array before the removal
movedBeforeRemoval(items, fromIndex, toIndex) ==
  LET out == spliceOut(items, fromIndex)
  IN  spliceIn(out[1], IF fromIndex < toIndex THEN toIndex - 1 ELSE toIndex, out[2])

\* the two splices of reorder
moved(items, fromIndex, toIndex) ==
  LET out == spliceOut(items, fromIndex)
  IN  spliceIn(out[1], toIndex, out[2])

reorder(prev, category, fromIndex, toIndex) ==
  IF category \notin Categories THEN Thrown(prev)
  ELSE Done([prev EXCEPT ![category] = moved(@, fromIndex, toIndex)], 1, "reordered")

(***************************************************************************)
(* importItems                                                             *)
(***************************************************************************)
\* one turn of importedBooks.forEach: batch[k] is <<item, random>>
RECURSIVE importEach(_, _, _, _)
importEach(catalog, batch, timestamp, k) ==
  IF k > Len(batch) THEN Done(catalog, 1, "imported")
  ELSE LET item == batch[k][1]
           new == Item(timestamp + batch[k][2], item.title, item.author,
                       item.category, item.percentage, item.isAllTime)
       IN  IF item.category \notin Categories THEN Thrown(catalog)
           ELSE LET appended == [catalog EXCEPT ![item.category] = Append(@, new)]
                IN  IF item.isAllTime /\ item.category # "allTime"
                    THEN IF HasHole(appended.allTime) THEN Thrown(catalog)
                         ELSE importEach(
                                [appended EXCEPT !.allTime =
                                   Append(WithoutId(@, new.id), [new EXCEPT !.isAllTime = TRUE])],
                                batch, timestamp, k + 1)
                    ELSE importEach(appended, batch, timestamp, k + 1)

import(prev, batch, timestamp) ==
  IF Len(batch) = 0 THEN Done(prev, 0, "nothing")
  ELSE LET r == importEach(prev, batch, timestamp, 1)
       IN  IF r.threw THEN Thrown(prev) ELSE r

\* the ids import gives the items of a batch
batchIds(batch, timestamp) == [k \in DOMAIN batch |-> timestamp + batch[k][2]]

(***************************************************************************)
(* Text.  A string is the sequence of its characters, each a one-character *)
(* string; a character outside ASCII is written as its code point.         *)
(***************************************************************************)
NoString == <<>>
Digits == <<"0", "1", "2", "3", "4", "5", "6", "7", "8", "9">>
IsDigit(ch) == \E d \in DOMAIN Digits : Digits[d] = ch
DigitValue(ch) == (CHOOSE d \in DOMAIN Digits : Digits[d] = ch) - 1

\* String(n) of a natural number, and the text a template literal gives a number
RECURSIVE NumberText(_)
NumberText(n) == IF n < 10 THEN <<Digits[n + 1]>> ELSE NumberText(n \div 10) \o <<Digits[(n % 10) + 1]>>

TemplateNumber(n) ==
  IF n = Undefined THEN <<"u", "n", "d", "e", "f", "i", "n", "e", "d">>
  ELSE NumberText(n)

\* parseInt of a run of digits
RECURSIVE parseInt(_)
parseInt(s) == IF s = <<>> THEN 0 ELSE 10 * parseInt(SubSeq(s, 1, Len(s) - 1)) + DigitValue(s[Len(s)])

\* x.includes(y)
Includes(s, part) == \E i \in 1 .. Len(s) - Len(part) + 1 : SubSeq(s, i, i + Len(part) - 1) = part

\* the index of the first occurrence of part in s from index `from` on, 0 if none
IndexOf(s, part, from) ==
  LET at == {i \in from .. Len(s) - Len(part) + 1 : SubSeq(s, i, i + Len(part) - 1) = part}
  IN  IF at = {} THEN 0 ELSE CHOOSE i \in at : \A j \in at : i <= j

\* a truthiness that takes an absent number for a number
NotZero(n) == n # 0

\* the truthiness of a string and of an optional number
Truthy(s) == s # NoString
TruthyNumber(n) == n # Undefined /\ n # 0

(***************************************************************************)
(* formatItem                                                              *)
(***************************************************************************)
\* an item with the fields the export prints
Entry(title, author, year, category, format, rating, percentage, completedDate, dateStarted, dateAdded, source, isAllTime, notes) ==
  [title |-> title, author |-> author, year |-> year, category |-> category,
   format |-> format, rating |-> rating, percentage |-> percentage,
   completedDate |-> completedDate, dateStarted |-> dateStarted, dateAdded |-> dateAdded,
   source |-> source, isAllTime |-> isAllTime, notes |-> notes]


\* formatLabels[item.format] || item.format
formatLabel(format, isBook) ==
  LET formatLabels ==
        IF isBook
        THEN << <<<<"t", "e", "x", "t">>, <<"H", "a", "r", "d", "c", "o", "p", "y">>>>,
                <<<<"a", "u", "d", "i", "o">>, <<"A", "u", "d", "i", "o">>>>,
                <<<<"e", "b", "o", "o", "k">>, <<"e", "B", "o", "o", "k">>>> >>
        ELSE << <<<<"s", "t", "r", "e", "a", "m", "i", "n", "g">>, <<"S", "t", "r", "e", "a", "m", "i", "n", "g">>>>,
                <<<<"t", "h", "e", "a", "t", "e", "r">>, <<"T", "h", "e", "a", "t", "e", "r">>>>,
                <<<<"b", "l", "u", "r", "a", "y">>, <<"B", "l", "u", "-", "r", "a", "y">>>>,
                <<<<"d", "v", "d">>, <<"D", "V", "D">>>> >>
      known == {k \in DOMAIN formatLabels : formatLabels[k][1] = format}
  IN  IF known = {} THEN format ELSE formatLabels[CHOOSE k \in known : TRUE][2]

\* new Date("YYYY-MM-DD").toLocaleDateString('en-US', {month: 'short', day: 'numeric',
\* year: 'numeric'}), read in the time zone the date was written in
shortDate(iso) ==
  LET ShortMonths ==
        <<<<"J", "a", "n">>,
         <<"F", "e", "b">>,
         <<"M", "a", "r">>,
         <<"A", "p", "r">>,
         <<"M", "a", "y">>,
         <<"J", "u", "n">>,
         <<"J", "u", "l">>,
         <<"A", "u", "g">>,
         <<"S", "e", "p">>,
         <<"O", "c", "t">>,
         <<"N", "o", "v">>,
         <<"D", "e", "c">>>>
  IN  ShortMonths[parseInt(SubSeq(iso, 6, 7))] \o <<" ">>
        \o NumberText(parseInt(SubSeq(iso, 9, 10))) \o <<",", " ">> \o SubSeq(iso, 1, 4)

\* the fixed text of the segments of an item line
Labels ==
  [
    by |->
      <<"\"", " ", "b", "y", " ">>,
    rating |->
      <<" ", "U+2B50", " ">>,
    stars |->
      <<"/", "5", " ", "s", "t", "a", "r", "s">>,
    percent |->
      <<"%", " ", "c", "o", "m", "p", "l", "e", "t", "e", ")">>,
    completed |->
      <<" ", "-", " ", "C", "o", "m", "p", "l", "e", "t", "e", "d", ":", " ">>,
    started |->
      <<" ", "-", " ", "S", "t", "a", "r", "t", "e", "d", ":", " ">>,
    added |->
      <<" ", "-", " ", "A", "d", "d", "e", "d", ":", " ">>,
    source |->
      <<" ", "-", " ", "S", "o", "u", "r", "c", "e", ":", " ">>,
    allTime |->
      <<" ", "U+1F3C6", " ", "A", "L", "L", "-", "T", "I", "M", "E", " ", "F", "A", "V",
        "O", "R", "I", "T", "E">>,
    notes |->
      <<"\n", " ", " ", " ", "N", "o", "t", "e", "s", ":", " ", "\"">>
  ]

formatItem(item, index, isBook) ==
  NumberText(index + 1) \o <<".", " ", "\"">> \o item.title \o Labels.by \o item.author
    \o <<" ", "(">> \o TemplateNumber(item.year) \o <<")">>
    \o (IF Truthy(item.format)
        THEN <<" ", "[">> \o formatLabel(item.format, isBook) \o <<"]">> ELSE <<>>)
    \o (IF TruthyNumber(item.rating)
        THEN Labels.rating \o NumberText(item.rating) \o Labels.stars ELSE <<>>)
    \o (IF TruthyNumber(item.percentage) /\ item.percentage < 100
        THEN <<" ", "(">> \o NumberText(item.percentage) \o Labels.percent ELSE <<>>)
    \o (IF Truthy(item.completedDate)
        THEN Labels.completed \o shortDate(item.completedDate) ELSE <<>>)
    \o (IF Truthy(item.dateStarted)
        THEN Labels.started \o shortDate(item.dateStarted) ELSE <<>>)
    \o (IF Truthy(item.dateAdded)
        THEN Labels.added \o shortDate(item.dateAdded) ELSE <<>>)
    \o (IF Truthy(item.source) THEN Labels.source \o item.source ELSE <<>>)
    \o (IF item.isAllTime THEN Labels.allTime ELSE <<>>)
    \o (IF Truthy(item.notes) THEN Labels.notes \o item.notes \o <<"\"">> ELSE <<>>)


(***************************************************************************)
(* generateComprehensiveExport.  new Date() is the clock of the device:    *)
(* the export is written on the day below.  Dates are read in the time     *)
(* zone they were written in.                                              *)
(***************************************************************************)
\* new Date(): the year, toLocaleDateString, toLocaleTimeString, toLocaleString
clock ==
  [ currentYear |-> 2024,
    exportDate |->
      <<"M", "o", "n", "d", "a", "y", ",", " ", "J", "a", "n", "u", "a", "r", "y", " ",
        "1", "5", ",", " ", "2", "0", "2", "4">>,
    exportTime |-> <<"0", "9", ":", "3", "0", " ", "A", "M">>,
    localeString |->
      <<"1", "/", "1", "5", "/", "2", "0", "2", "4", ",", " ", "9", ":", "3", "0", ":",
        "0", "0", " ", "A", "M">> ]

\* a field of a stored item, undefined if the item has not got it
Field(item, name, none) == IF name \in DOMAIN item THEN item[name] ELSE none

\* a stored item as the export reads it
fieldsOf(item) ==
  Entry(item.title, item.author, Field(item, "year", Undefined), item.category,
        Field(item, "format", NoString), Field(item, "rating", Undefined), item.percentage,
        Field(item, "completedDate", NoString), Field(item, "dateStarted", NoString),
        Field(item, "dateAdded", NoString), Field(item, "source", NoString),
        item.isAllTime, Field(item, "notes", NoString))

\* getCompletionYear: null (here Undefined) without a completedDate
getCompletionYear(item) ==
  LET completedDate == Field(item, "completedDate", NoString)
  IN  IF ~Truthy(completedDate) THEN Undefined ELSE parseInt(SubSeq(completedDate, 1, 4))

\* items.filter(item => getCompletionYear(item) === year).length
CompletedIn(items, year) ==
  Cardinality({i \in DOMAIN items : getCompletionYear(items[i]) = year})

\* Object.values(catalog).flat().length
Total(catalog) ==
  Len(catalog.completed) + Len(catalog.inProgress) + Len(catalog.planned)
    + Len(catalog.fails) + Len(catalog.allTime)

\* Math.round((done / goal) * 100), for a goal above 0
Progress(done, goal) == (200 * done + goal) \div (2 * goal)

RECURSIVE SumRatings(_, _)
SumRatings(items, k) ==
  IF k > Len(items) THEN 0
  ELSE (IF TruthyNumber(Field(items[k], "rating", Undefined))
        THEN items[k].rating ELSE 0) + SumRatings(items, k + 1)


\* the average of the ratings above 0, with one decimal (toFixed(1)), or N/A
averageRating(items) ==
  LET rated == Cardinality({i \in DOMAIN items :
                              TruthyNumber(Field(items[i], "rating", Undefined))})
      tenths == (20 * SumRatings(items, 1) + rated) \div (2 * rated)
  IN  IF rated = 0 THEN <<"N", "/", "A">>
      ELSE NumberText(tenths \div 10) \o <<".">> \o NumberText(tenths % 10)

\* the title, the statistics and the goals
exportHeader ==
  LET booksThisYear == CompletedIn(books.completed, clock.currentYear)
      moviesThisYear == CompletedIn(movies.completed, clock.currentYear)
  IN  <<"U+1F4DA", "U+1F3AC", " ", "M", "Y", " ", "C", "O", "M", "P", "L", "E", "T",
        "E", " ", "R", "E", "A", "D", "I", "N", "G", " ", "&", " ", "W", "A", "T", "C",
        "H", "I", "N", "G", " ", "L", "I", "S", "T", "\n", "U+2550", "U+2550",
        "U+2550", "U+2550", "U+2550", "U+2550", "U+2550", "U+2550", "U+2550", "U+2550",
        "U+2550", "U+2550", "U+2550", "U+2550", "U+2550", "U+2550", "U+2550", "U+2550",
        "U+2550", "U+2550", "U+2550", "U+2550", "U+2550", "U+2550", "U+2550", "U+2550",
        "U+2550", "U+2550", "U+2550", "U+2550", "U+2550", "U+2550", "U+2550", "U+2550",
        "U+2550", "U+2550", "U+2550", "U+2550", "U+2550", "U+2550", "U+2550", "U+2550",
        "U+2550", "U+2550", "U+2550", "U+2550", "U+2550", "U+2550", "U+2550", "U+2550",
        "U+2550", "U+2550", "U+2550", "U+2550", "U+2550", "U+2550", "U+2550", "U+2550",
        "U+2550", "\n", "\n", "G", "e", "n", "e", "r", "a", "t", "e", "d", ":", " ">>
    \o clock.exportDate
    \o <<" ", "a", "t", " ">>
    \o clock.exportTime
    \o <<"\n", "\n", "U+1F4CA", " ", "O", "V", "E", "R", "V", "I", "E", "W", " ", "&",
        " ", "S", "T", "A", "T", "I", "S", "T", "I", "C", "S", "\n", "U+2550",
        "U+2550", "U+2550", "U+2550", "U+2550", "U+2550", "U+2550", "U+2550", "U+2550",
        "U+2550", "U+2550", "U+2550", "U+2550", "U+2550", "U+2550", "U+2550", "U+2550",
        "U+2550", "U+2550", "U+2550", "U+2550", "U+2550", "U+2550", "U+2550", "U+2550",
        "U+2550", "U+2550", "U+2550", "U+2550", "U+2550", "U+2550", "U+2550", "U+2550",
        "U+2550", "U+2550", "U+2550", "U+2550", "U+2550", "U+2550", "U+2550", "U+2550",
        "U+2550", "U+2550", "U+2550", "U+2550", "U+2550", "U+2550", "U+2550", "U+2550",
        "U+2550", "U+2550", "U+2550", "U+2550", "U+2550", "U+2550", "U+2550", "U+2550",
        "U+2550", "U+2550", "\n", "\n", "U+1F4C8", " ">>
    \o NumberText(clock.currentYear)
    \o <<" ", "G", "O", "A", "L", "S", " ", "&", " ", "P", "R", "O", "G", "R", "E", "S",
        "S", ":", "\n", "U+2022", " ", "B", "o", "o", "k", "s", " ", "G", "o", "a",
        "l", ":", " ">>
    \o NumberText(booksThisYear)
    \o <<"/">>
    \o NumberText(bookGoal)
    \o <<" ", "(">>
    \o NumberText(Progress(booksThisYear, bookGoal))
    \o <<"%", ")", "\n", "U+2022", " ", "M", "o", "v", "i", "e", "s", " ", "G", "o",
        "a", "l", ":", " ">>
    \o NumberText(moviesThisYear)
    \o <<"/">>
    \o NumberText(movieGoal)
    \o <<" ", "(">>
    \o NumberText(Progress(moviesThisYear, movieGoal))
    \o <<"%", ")", "\n", "U+2022", " ", "C", "o", "m", "b", "i", "n", "e", "d", " ",
        "P", "r", "o", "g", "r", "e", "s", "s", ":", " ">>
    \o NumberText(booksThisYear + moviesThisYear)
    \o <<"/">>
    \o NumberText(bookGoal + movieGoal)
    \o <<" ", "i", "t", "e", "m", "s", "\n", "\n", "U+1F4DA", " ", "B", "O", "O", "K",
        " ", "S", "T", "A", "T", "I", "S", "T", "I", "C", "S", ":", "\n", "U+2022",
        " ", "T", "o", "t", "a", "l", " ", "B", "o", "o", "k", "s", ":", " ">>
    \o NumberText(Total(books))
    \o <<"\n", "U+2022", " ", "C", "o", "m", "p", "l", "e", "t", "e", "d", ":", " ">>
    \o NumberText(Len(books.completed))
    \o <<"\n", "U+2022", " ", "C", "u", "r", "r", "e", "n", "t", "l", "y", " ", "R",
        "e", "a", "d", "i", "n", "g", ":", " ">>
    \o NumberText(Len(books.inProgress))
    \o <<"\n", "U+2022", " ", "P", "l", "a", "n", "n", "e", "d", ":", " ">>
    \o NumberText(Len(books.planned))
    \o <<"\n", "U+2022", " ", "S", "t", "o", "p", "p", "e", "d", "/", "D", "N", "F",
        ":", " ">>
    \o NumberText(Len(books.fails))
    \o <<"\n", "U+2022", " ", "A", "l", "l", "-", "T", "i", "m", "e", " ", "F", "a",
        "v", "o", "r", "i", "t", "e", "s", ":", " ">>
    \o NumberText(Len(books.allTime))
    \o <<"\n", "U+2022", " ", "A", "v", "e", "r", "a", "g", "e", " ", "R", "a", "t",
        "i", "n", "g", ":", " ">>
    \o averageRating(books.completed)
    \o <<"/", "5", " ", "s", "t", "a", "r", "s", "\n", "\n", "U+1F3AC", " ", "M", "O",
        "V", "I", "E", " ", "S", "T", "A", "T", "I", "S", "T", "I", "C", "S", ":",
        "\n", "U+2022", " ", "T", "o", "t", "a", "l", " ", "M", "o", "v", "i", "e",
        "s", ":", " ">>
    \o NumberText(Total(movies))
    \o <<"\n", "U+2022", " ", "C", "o", "m", "p", "l", "e", "t", "e", "d", ":", " ">>
    \o NumberText(Len(movies.completed))
    \o <<"\n", "U+2022", " ", "C", "u", "r", "r", "e", "n", "t", "l", "y", " ", "W",
        "a", "t", "c", "h", "i", "n", "g", ":", " ">>
    \o NumberText(Len(movies.inProgress))
    \o <<"\n", "U+2022", " ", "P", "l", "a", "n", "n", "e", "d", ":", " ">>
    \o NumberText(Len(movies.planned))
    \o <<"\n", "U+2022", " ", "S", "t", "o", "p", "p", "e", "d", ":", " ">>
    \o NumberText(Len(movies.fails))
    \o <<"\n", "U+2022", " ", "A", "l", "l", "-", "T", "i", "m", "e", " ", "F", "a",
        "v", "o", "r", "i", "t", "e", "s", ":", " ">>
    \o NumberText(Len(movies.allTime))
    \o <<"\n", "U+2022", " ", "A", "v", "e", "r", "a", "g", "e", " ", "R", "a", "t",
        "i", "n", "g", ":", " ">>
    \o averageRating(movies.completed)
    \o <<"/", "5", " ", "s", "t", "a", "r", "s", "\n", "\n">>

\* the rule ('U+2500'.repeat(50)), the titles of the parts and of the sections, the footer
Headings ==
  [
    rule |->
      <<"U+2500", "U+2500", "U+2500", "U+2500", "U+2500", "U+2500", "U+2500", "U+2500",
        "U+2500", "U+2500", "U+2500", "U+2500", "U+2500", "U+2500", "U+2500", "U+2500",
        "U+2500", "U+2500", "U+2500", "U+2500", "U+2500", "U+2500", "U+2500", "U+2500",
        "U+2500", "U+2500", "U+2500", "U+2500", "U+2500", "U+2500", "U+2500", "U+2500",
        "U+2500", "U+2500", "U+2500", "U+2500", "U+2500", "U+2500", "U+2500", "U+2500",
        "U+2500", "U+2500", "U+2500", "U+2500", "U+2500", "U+2500", "U+2500", "U+2500",
        "U+2500", "U+2500">>,
    books |->
      <<"\n", "U+1F4DA", " ", "B", "O", "O", "K", "S", "\n", "U+2550", "U+2550", "U+2550",
        "U+2550", "U+2550", "U+2550", "U+2550", "U+2550", "U+2550", "U+2550", "U+2550",
        "U+2550", "U+2550", "U+2550", "U+2550", "U+2550", "U+2550", "U+2550", "U+2550",
        "U+2550", "U+2550", "U+2550", "U+2550", "U+2550", "U+2550", "U+2550", "U+2550",
        "U+2550", "U+2550", "U+2550", "U+2550", "U+2550", "U+2550", "U+2550", "U+2550",
        "U+2550", "U+2550", "U+2550", "U+2550", "U+2550", "U+2550", "U+2550", "U+2550",
        "U+2550", "U+2550", "U+2550", "U+2550", "U+2550", "U+2550", "U+2550", "U+2550",
        "U+2550", "U+2550", "U+2550", "U+2550", "U+2550", "U+2550", "U+2550", "U+2550",
        "\n", "\n">>,
    movies |->
      <<"\n", "U+1F3AC", " ", "M", "O", "V", "I", "E", "S", "\n", "U+2550", "U+2550",
        "U+2550", "U+2550", "U+2550", "U+2550", "U+2550", "U+2550", "U+2550", "U+2550",
        "U+2550", "U+2550", "U+2550", "U+2550", "U+2550", "U+2550", "U+2550", "U+2550",
        "U+2550", "U+2550", "U+2550", "U+2550", "U+2550", "U+2550", "U+2550", "U+2550",
        "U+2550", "U+2550", "U+2550", "U+2550", "U+2550", "U+2550", "U+2550", "U+2550",
        "U+2550", "U+2550", "U+2550", "U+2550", "U+2550", "U+2550", "U+2550", "U+2550",
        "U+2550", "U+2550", "U+2550", "U+2550", "U+2550", "U+2550", "U+2550", "U+2550",
        "U+2550", "U+2550", "U+2550", "U+2550", "U+2550", "U+2550", "U+2550", "U+2550",
        "U+2550", "\n", "\n">>,
    completedBooks |->
      <<"U+2705", " ", "C", "O", "M", "P", "L", "E", "T", "E", "D", " ", "B", "O", "O",
        "K", "S">>,
    currentlyReading |->
      <<"U+1F4D6", " ", "C", "U", "R", "R", "E", "N", "T", "L", "Y", " ", "R", "E", "A",
        "D", "I", "N", "G">>,
    wantToRead |->
      <<"U+1F4CB", " ", "W", "A", "N", "T", " ", "T", "O", " ", "R", "E", "A", "D">>,
    stoppedBooks |->
      <<"U+274C", " ", "S", "T", "O", "P", "P", "E", "D", "/", "D", "N", "F", " ", "B",
        "O", "O", "K", "S">>,
    favoriteBooks |->
      <<"U+1F3C6", " ", "A", "L", "L", "-", "T", "I", "M", "E", " ", "F", "A", "V", "O",
        "R", "I", "T", "E", " ", "B", "O", "O", "K", "S">>,
    completedMovies |->
      <<"U+2705", " ", "C", "O", "M", "P", "L", "E", "T", "E", "D", " ", "M", "O", "V",
        "I", "E", "S">>,
    currentlyWatching |->
      <<"U+1F3A5", " ", "C", "U", "R", "R", "E", "N", "T", "L", "Y", " ", "W", "A", "T",
        "C", "H", "I", "N", "G">>,
    wantToWatch |->
      <<"U+1F4CB", " ", "W", "A", "N", "T", " ", "T", "O", " ", "W", "A", "T", "C", "H">>,
    stoppedMovies |->
      <<"U+274C", " ", "S", "T", "O", "P", "P", "E", "D", " ", "M", "O", "V", "I", "E",
        "S">>,
    favoriteMovies |->
      <<"U+1F3C6", " ", "A", "L", "L", "-", "T", "I", "M", "E", " ", "F", "A", "V", "O",
        "R", "I", "T", "E", " ", "M", "O", "V", "I", "E", "S">>,
    yearly |->
      <<"\n", "U+1F4C5", " ", "Y", "E", "A", "R", "L", "Y", " ", "B", "R", "E", "A", "K",
        "D", "O", "W", "N", " ", "(", "b", "y", " ", "c", "o", "m", "p", "l", "e", "t",
        "i", "o", "n", " ", "d", "a", "t", "e", ")", "\n", "U+2550", "U+2550", "U+2550",
        "U+2550", "U+2550", "U+2550", "U+2550", "U+2550", "U+2550", "U+2550", "U+2550",
        "U+2550", "U+2550", "U+2550", "U+2550", "U+2550", "U+2550", "U+2550", "U+2550",
        "U+2550", "U+2550", "U+2550", "U+2550", "U+2550", "U+2550", "U+2550", "U+2550",
        "U+2550", "U+2550", "U+2550", "U+2550", "U+2550", "U+2550", "U+2550", "U+2550",
        "U+2550", "U+2550", "U+2550", "U+2550", "U+2550", "U+2550", "U+2550", "U+2550",
        "U+2550", "U+2550", "U+2550", "U+2550", "U+2550", "U+2550", "U+2550", "U+2550",
        "U+2550", "U+2550", "U+2550", "U+2550", "U+2550", "U+2550", "U+2550", "U+2550",
        "\n", "\n">>,
    footer |->
      <<"\n", "U+2550", "U+2550", "U+2550", "U+2550", "U+2550", "U+2550", "U+2550",
        "U+2550", "U+2550", "U+2550", "U+2550", "U+2550", "U+2550", "U+2550", "U+2550",
        "U+2550", "U+2550", "U+2550", "U+2550", "U+2550", "U+2550", "U+2550", "U+2550",
        "U+2550", "U+2550", "U+2550", "U+2550", "U+2550", "U+2550", "U+2550", "U+2550",
        "U+2550", "U+2550", "U+2550", "U+2550", "U+2550", "U+2550", "U+2550", "U+2550",
        "U+2550", "U+2550", "U+2550", "U+2550", "U+2550", "U+2550", "U+2550", "U+2550",
        "U+2550", "U+2550", "U+2550", "U+2550", "U+2550", "U+2550", "U+2550", "U+2550",
        "U+2550", "U+2550", "U+2550", "U+2550", "\n", "E", "n", "d", " ", "o", "f", " ",
        "E", "x", "p", "o", "r", "t", " ", "-", " ", "G", "e", "n", "e", "r", "a", "t",
        "e", "d", " ", "b", "y", " ", "F", "i", "f", "t", "y", "L", "i", "s", "t", " ",
        "A", "p", "p", "\n", "U+2550", "U+2550", "U+2550", "U+2550", "U+2550", "U+2550",
        "U+2550", "U+2550", "U+2550", "U+2550", "U+2550", "U+2550", "U+2550", "U+2550",
        "U+2550", "U+2550", "U+2550", "U+2550", "U+2550", "U+2550", "U+2550", "U+2550",
        "U+2550", "U+2550", "U+2550", "U+2550", "U+2550", "U+2550", "U+2550", "U+2550",
        "U+2550", "U+2550", "U+2550", "U+2550", "U+2550", "U+2550", "U+2550", "U+2550",
        "U+2550", "U+2550", "U+2550", "U+2550", "U+2550", "U+2550", "U+2550", "U+2550",
        "U+2550", "U+2550", "U+2550", "U+2550", "U+2550", "U+2550", "U+2550", "U+2550",
        "U+2550", "U+2550", "U+2550", "U+2550", "U+2550">>
  ]

\* items.forEach((item, index) => { exportText += formatItem(item, index, isBook) + '\n' })
RECURSIVE itemLines(_, _, _)
itemLines(items, k, isBook) ==
  IF k > Len(items) THEN <<>>
  ELSE formatItem(fieldsOf(items[k]), k - 1, isBook) \o <<"\n">> \o itemLines(items, k + 1, isBook)

\* the section of a bucket, if the bucket has items
section(heading, items, isBook) ==
  IF Len(items) = 0 THEN <<>>
  ELSE heading \o <<" ", "(">> \o NumberText(Len(items)) \o <<")", "\n">>
         \o Headings.rule \o <<"\n">> \o itemLines(items, 1, isBook) \o <<"\n">>

bookSections ==
  Headings.books
    \o section(Headings.completedBooks, books.completed, TRUE)
    \o section(Headings.currentlyReading, books.inProgress, TRUE)
    \o section(Headings.wantToRead, books.planned, TRUE)
    \o section(Headings.stoppedBooks, books.fails, TRUE)
    \o section(Headings.favoriteBooks, books.allTime, TRUE)

movieSections ==
  Headings.movies
    \o section(Headings.completedMovies, movies.completed, FALSE)
    \o section(Headings.currentlyWatching, movies.inProgress, FALSE)
    \o section(Headings.wantToWatch, movies.planned, FALSE)
    \o section(Headings.stoppedMovies, movies.fails, FALSE)
    \o section(Headings.favoriteMovies, movies.allTime, FALSE)


\* the years in which an item of either catalog was completed (a year of 0 is
\* falsy and is not counted)
completionYears ==
  ({getCompletionYear(books.completed[i]) : i \in DOMAIN books.completed}
     \cup {getCompletionYear(movies.completed[i]) : i \in DOMAIN movies.completed})
    \ {Undefined, 0}

\* `${year}: ${total} total (${bookCount} books, ${movieCount} movies)\n`
yearLine(year) ==
  LET bookCount == CompletedIn(books.completed, year)
      movieCount == CompletedIn(movies.completed, year)
  IN  NumberText(year)
    \o <<":", " ">>
    \o NumberText(bookCount + movieCount)
    \o <<" ", "t", "o", "t", "a", "l", " ", "(">>
    \o NumberText(bookCount)
    \o <<" ", "b", "o", "o", "k", "s", ",", " ">>
    \o NumberText(movieCount)
    \o <<" ", "m", "o", "v", "i", "e", "s", ")", "\n">>

\* the lines of the years, the latest first
RECURSIVE yearLines(_)
yearLines(years) ==
  IF years = {} THEN <<>>
  ELSE LET latest == CHOOSE y \in years : \A z \in years : z <= y
       IN  yearLine(latest) \o yearLines(years \ {latest})

yearlyBreakdown ==
  IF completionYears = {} THEN <<>> ELSE Headings.yearly \o yearLines(completionYears)


\* error.message of the TypeError of reading a field of undefined
messageOf(field) ==
  <<"C", "a", "n", "n", "o", "t", " ", "r", "e", "a", "d", " ", "p", "r", "o", "p",
    "e", "r", "t", "i", "e", "s", " ", "o", "f", " ", "u", "n", "d", "e", "f", "i",
    "n", "e", "d", " ", "(", "r", "e", "a", "d", "i", "n", "g", " ", "'">> \o field \o <<"'", ")">>

\* the text the catch block returns
exportError(message) ==
  <<"U+1F4DA", "U+1F3AC", " ", "E", "X", "P", "O", "R", "T", " ", "E", "R", "R", "O",
      "R", "\n", "U+2550", "U+2550", "U+2550", "U+2550", "U+2550", "U+2550", "U+2550",
      "U+2550", "U+2550", "U+2550", "U+2550", "U+2550", "U+2550", "U+2550", "U+2550",
      "U+2550", "U+2550", "U+2550", "U+2550", "U+2550", "U+2550", "U+2550", "U+2550",
      "U+2550", "U+2550", "U+2550", "U+2550", "U+2550", "U+2550", "U+2550", "U+2550",
      "U+2550", "U+2550", "U+2550", "U+2550", "U+2550", "U+2550", "U+2550", "U+2550",
      "U+2550", "U+2550", "U+2550", "U+2550", "U+2550", "U+2550", "U+2550", "U+2550",
      "U+2550", "U+2550", "U+2550", "U+2550", "U+2550", "U+2550", "U+2550", "U+2550",
      "U+2550", "U+2550", "U+2550", "U+2550", "\n", "\n", "A", "n", " ", "e", "r", "r",
      "o", "r", " ", "o", "c", "c", "u", "r", "r", "e", "d", " ", "w", "h", "i", "l",
      "e", " ", "g", "e", "n", "e", "r", "a", "t", "i", "n", "g", " ", "t", "h", "e",
      " ", "e", "x", "p", "o", "r", "t", ":", "\n">>
  \o message
  \o <<"\n", "\n", "P", "l", "e", "a", "s", "e", " ", "t", "r", "y", " ", "a", "g", "a",
      "i", "n", " ", "o", "r", " ", "c", "o", "n", "t", "a", "c", "t", " ", "s", "u",
      "p", "p", "o", "r", "t", " ", "i", "f", " ", "t", "h", "e", " ", "i", "s", "s",
      "u", "e", " ", "p", "e", "r", "s", "i", "s", "t", "s", ".", "\n", "\n", "G", "e",
      "n", "e", "r", "a", "t", "e", "d", ":", " ">>
  \o clock.localeString
  \o <<"\n", "U+2550", "U+2550", "U+2550", "U+2550", "U+2550", "U+2550", "U+2550",
      "U+2550", "U+2550", "U+2550", "U+2550", "U+2550", "U+2550", "U+2550", "U+2550",
      "U+2550", "U+2550", "U+2550", "U+2550", "U+2550", "U+2550", "U+2550", "U+2550",
      "U+2550", "U+2550", "U+2550", "U+2550", "U+2550", "U+2550", "U+2550", "U+2550",
      "U+2550", "U+2550", "U+2550", "U+2550", "U+2550", "U+2550", "U+2550", "U+2550",
      "U+2550", "U+2550", "U+2550", "U+2550", "U+2550", "U+2550", "U+2550", "U+2550",
      "U+2550", "U+2550", "U+2550", "U+2550", "U+2550", "U+2550", "U+2550", "U+2550",
      "U+2550", "U+2550", "U+2550", "U+2550">>

\* the text generateComprehensiveExport returns: the statistics read
\* completedDate of every completed item, formatItem reads title of every item
exportText ==
  IF HasHole(books.completed) \/ HasHole(movies.completed)
  THEN exportError(messageOf(<<"c", "o", "m", "p", "l", "e", "t", "e", "d", "D", "a", "t", "e">>))
  ELSE IF AnyHole(books) \/ AnyHole(movies)
  THEN exportError(messageOf(<<"t", "i", "t", "l", "e">>))
  ELSE exportHeader \o bookSections \o movieSections \o yearlyBreakdown \o Headings.footer


(***************************************************************************)
(* parseImportText.  The regular expressions are written out as the        *)
(* searches they perform: the leftmost match, each quantifier as long as   *)
(* the rest of the pattern allows.                                         *)
(***************************************************************************)
completedKeywords ==
  << <<"c", "o", "m", "p", "l", "e", "t", "e", "d">>,
     <<"f", "i", "n", "i", "s", "h", "e", "d">>,
     <<"d", "o", "n", "e">>,
     <<"r", "e", "a", "d">>,
     <<"w", "a", "t", "c", "h", "e", "d">>,
     <<"U+2705">>,
     <<"U+2713">> >>
inProgressKeywords ==
  << <<"r", "e", "a", "d", "i", "n", "g">>,
     <<"w", "a", "t", "c", "h", "i", "n", "g">>,
     <<"c", "u", "r", "r", "e", "n", "t">>,
     <<"i", "n", " ", "p", "r", "o", "g", "r", "e", "s", "s">>,
     <<"U+1F4D6">>,
     <<"U+1F3A5">> >>
plannedKeywords ==
  << <<"w", "a", "n", "t", " ", "t", "o">>,
     <<"p", "l", "a", "n", "n", "e", "d">>,
     <<"t", "o", " ", "r", "e", "a", "d">>,
     <<"t", "o", " ", "w", "a", "t", "c", "h">>,
     <<"w", "i", "s", "h", "l", "i", "s", "t">>,
     <<"U+1F4CB">>,
     <<"U+1F3AF">> >>
failsKeywords ==
  << <<"d", "n", "f">>,
     <<"s", "t", "o", "p", "p", "e", "d">>,
     <<"a", "b", "a", "n", "d", "o", "n", "e", "d">>,
     <<"d", "i", "d", " ", "n", "o", "t", " ", "f", "i", "n", "i", "s", "h">>,
     <<"U+274C">> >>
allTimeKeywords ==
  << <<"f", "a", "v", "o", "r", "i", "t", "e">>,
     <<"a", "l", "l", " ", "t", "i", "m", "e">>,
     <<"b", "e", "s", "t">>,
     <<"U+1F3C6">>,
     <<"U+2B50">> >>
bookKeywords ==
  << <<"b", "o", "o", "k">>,
     <<"n", "o", "v", "e", "l">>,
     <<"a", "u", "t", "h", "o", "r">>,
     <<"r", "e", "a", "d">>,
     <<"r", "e", "a", "d", "i", "n", "g">>,
     <<"U+1F4DA">>,
     <<"i", "s", "b", "n">> >>
movieKeywords ==
  << <<"m", "o", "v", "i", "e">>,
     <<"f", "i", "l", "m">>,
     <<"d", "i", "r", "e", "c", "t", "o", "r">>,
     <<"w", "a", "t", "c", "h", "e", "d">>,
     <<"w", "a", "t", "c", "h", "i", "n", "g">>,
     <<"U+1F3AC">>,
     <<"c", "i", "n", "e", "m", "a">> >>
\* the names the format pattern knows
formatNames ==
  << <<"h", "a", "r", "d", "c", "o", "p", "y">>,
     <<"a", "u", "d", "i", "o">>,
     <<"e", "b", "o", "o", "k">>,
     <<"s", "t", "r", "e", "a", "m", "i", "n", "g">>,
     <<"t", "h", "e", "a", "t", "e", "r">>,
     <<"b", "l", "u", "-", "r", "a", "y">>,
     <<"d", "v", "d">> >>
Unknown ==
  <<"U", "n", "k", "n", "o", "w", "n">>

\* \s, and the characters trim() removes
WhiteSpace == {" ", "\t", "\r", "\n"}

\* the characters of s from index m to index n, as far as s has them
Slice(s, m, n) == SubSeq(s, Max(m, 1), Min(n, Len(s)))

First(S) == CHOOSE i \in S : \A j \in S : i <= j
Last(S) == CHOOSE i \in S : \A j \in S : j <= i

\* s.trim()
trim(s) ==
  LET kept == {i \in DOMAIN s : s[i] \notin WhiteSpace}
  IN  IF kept = {} THEN <<>> ELSE Slice(s, First(kept), Last(kept))

\* the first index from p on whose character is in chars, Len(s) + 1 if none
NextOf(s, p, chars) ==
  LET at == {i \in p .. Len(s) : s[i] \in chars}
  IN  IF at = {} THEN Len(s) + 1 ELSE First(at)

\* the length of the longest run of white space, and of digits, that starts at p
wsRun(s, p) ==
  LET stops == {i \in p .. Len(s) : s[i] \notin WhiteSpace}
  IN  (IF stops = {} THEN Len(s) + 1 ELSE First(stops)) - p
digitRun(s, p) ==
  LET stops == {i \in p .. Len(s) : ~IsDigit(s[i])}
  IN  (IF stops = {} THEN Len(s) + 1 ELSE First(stops)) - p

\* the character at index p, none beyond the end
At(s, p) == IF p \in DOMAIN s THEN s[p] ELSE ""

\* text.split('\n')
split(text) ==
  LET breaks == {i \in DOMAIN text : text[i] = "\n"}
      break(k) == IF k = 0 THEN 0
                  ELSE IF k > Cardinality(breaks) THEN Len(text) + 1
                  ELSE CHOOSE i \in breaks : Cardinality({j \in breaks : j < i}) = k - 1
  IN  [k \in 1 .. Cardinality(breaks) + 1 |-> Slice(text, break(k - 1) + 1, break(k) - 1)]

\* kws.some(kw => lowerLine.includes(kw)), and how many of kws the line includes
SomeIncluded(lowerLine, kws) == \E k \in DOMAIN kws : Includes(lowerLine, kws[k])
Score(lowerLine, kws) == Cardinality({k \in DOMAIN kws : Includes(lowerLine, kws[k])})

\* a match of a pattern with two groups, or none
NoMatch == <<>>
Groups(s, first, second) ==
  <<Slice(s, first[1], first[2]), Slice(s, second[1], second[2])>>

\* \s+([^(]+) from index p on: the range of the group, <<0, 0>> if it fails.
\* The white space is followed by a character other than "(", or gives its
\* last character to the group.
rest(s, p) ==
  LET w == wsRun(s, p)
      r == p + w
  IN  IF w = 0 THEN <<0, 0>>
      ELSE IF r <= Len(s) /\ s[r] # "(" THEN <<r, NextOf(s, r, {"("}) - 1>>
      ELSE IF w >= 2 THEN <<r - 1, r - 1>>
      ELSE <<0, 0>>

\* /"([^"]+)"\s+by\s+([^(]+)/i
quotedBy(s) ==
  LET close(i) == NextOf(s, i + 1, {"\""})
      by(i) == close(i) + 1 + wsRun(s, close(i) + 1)
      ok == {i \in DOMAIN s :
               /\ s[i] = "\""
               /\ close(i) <= Len(s)
               /\ close(i) >= i + 2
               /\ wsRun(s, close(i) + 1) >= 1
               /\ toLowerCase(Slice(s, by(i), by(i) + 1)) = <<"b", "y">>
               /\ rest(s, by(i) + 2) # <<0, 0>>}
  IN  IF ok = {} THEN NoMatch
      ELSE LET i == First(ok)
           IN  Groups(s, <<i + 1, close(i) - 1>>, rest(s, by(i) + 2))

\* the index after the last of the characters `marks` before index p
startAfter(s, p, marks) ==
  LET before == {i \in 1 .. p - 1 : s[i] \in marks}
  IN  IF before = {} THEN 1 ELSE Last(before) + 1

\* /([^-]+)\s+-\s+([^(]+)/i
dashed(s) ==
  LET ok == {h \in DOMAIN s :
               /\ s[h] = "-"
               /\ startAfter(s, h, {"-"}) <= h - 2
               /\ s[h - 1] \in WhiteSpace
               /\ rest(s, h + 1) # <<0, 0>>}
  IN  IF ok = {} THEN NoMatch
      ELSE LET h == First(ok)
           IN  Groups(s, <<startAfter(s, h, {"-"}), h - 2>>, rest(s, h + 1))

\* /([^,]+),\s+([^(]+)/i
commaed(s) ==
  LET ok == {c \in DOMAIN s :
               /\ s[c] = ","
               /\ startAfter(s, c, {","}) <= c - 1
               /\ rest(s, c + 1) # <<0, 0>>}
  IN  IF ok = {} THEN NoMatch
      ELSE LET c == First(ok)
           IN  Groups(s, <<startAfter(s, c, {","}), c - 1>>, rest(s, c + 1))

\* /([^(]+)\s+by\s+([^(]+)/i: of the places of "by" in the stretch without "("
\* the match starts in, the last
plainBy(s) ==
  LET ok == {b \in DOMAIN s :
               /\ toLowerCase(Slice(s, b, b + 1)) = <<"b", "y">>
               /\ b - 1 \in DOMAIN s
               /\ s[b - 1] \in WhiteSpace
               /\ startAfter(s, b, {"("}) <= b - 2
               /\ rest(s, b + 2) # <<0, 0>>}
  IN  IF ok = {} THEN NoMatch
      ELSE LET start == startAfter(s, First(ok), {"("})
               b == Last({c \in ok : startAfter(s, c, {"("}) = start})
           IN  Groups(s, <<start, b - 2>>, rest(s, b + 2))

\* the first of the four patterns that matches
titleAndAuthor(s) ==
  IF quotedBy(s) # NoMatch THEN quotedBy(s)
  ELSE IF dashed(s) # NoMatch THEN dashed(s)
  ELSE IF commaed(s) # NoMatch THEN commaed(s)
  ELSE plainBy(s)

\* the length of the longest match of /^\d+\.?\s*/
numbering(s) ==
  LET d == digitRun(s, 1)
      dot == IF At(s, d + 1) = "." THEN 1 ELSE 0
  IN  IF d = 0 THEN 0 ELSE d + dot + wsRun(s, d + dot + 1)

\* group 2 of line.match(/^(\d+\.?\s*)?(.+)/): the numbering leaves a character
\* to the group
itemTextOf(line) ==
  LET n == numbering(line)
  IN  IF n < Len(line) THEN Slice(line, n + 1, Len(line))
      ELSE IF n >= 2 THEN Slice(line, n, n)
      ELSE line

\* t.replace(/^["']|["']$/g, '')
stripQuotes(t) ==
  LET tail == IF t # <<>> /\ t[1] \in {"\"", "'"} THEN Slice(t, 2, Len(t)) ELSE t
  IN  IF tail # <<>> /\ tail[Len(tail)] \in {"\"", "'"}
      THEN Slice(tail, 1, Len(tail) - 1) ELSE tail

\* cleanText.split(/[(\[\-]/)[0].trim() of itemText.replace(/^\d+\.?\s*/, '').trim()
bareTitle(itemText) ==
  LET cleanText == trim(Slice(itemText, numbering(itemText) + 1, Len(itemText)))
  IN  trim(Slice(cleanText, 1, NextOf(cleanText, 1, {"(", "[", "-"}) - 1))

\* itemText.match(/\((\d{4})\)/)
yearOf(s) ==
  LET at == {i \in DOMAIN s :
               /\ s[i] = "("
               /\ digitRun(s, i + 1) >= 4
               /\ At(s, i + 5) = ")"}
  IN  IF at = {} THEN Undefined ELSE parseInt(Slice(s, First(at) + 1, First(at) + 4))

\* itemText.match(/(\d+)\/5|U+2B50\s*(\d+)|U+2605+/)
ratingOf(s) ==
  LET outOfFive(i) == /\ IsDigit(s[i])
                      /\ At(s, i + digitRun(s, i)) = "/"
                      /\ At(s, i + digitRun(s, i) + 1) = "5"
      starred(i) == s[i] = "U+2B50" /\ digitRun(s, i + 1 + wsRun(s, i + 1)) >= 1
      stars(i) == s[i] = "U+2605"
      at == {i \in DOMAIN s : outOfFive(i) \/ starred(i) \/ stars(i)}
  IN  IF at = {} THEN Undefined
      ELSE LET i == First(at)
               digits == i + 1 + wsRun(s, i + 1)
           IN  IF outOfFive(i) THEN parseInt(Slice(s, i, i + digitRun(s, i) - 1))
               ELSE IF starred(i)
               THEN parseInt(Slice(s, digits, digits + digitRun(s, digits) - 1))
               ELSE Cardinality({j \in DOMAIN s : s[j] = "U+2605"})

\* the index of the colon of /notes?:/i that starts at index i, 0 if none does
notesColon(s, i) ==
  IF toLowerCase(Slice(s, i, i + 3)) # <<"n", "o", "t", "e">> THEN 0
  ELSE IF toLowerCase(<<At(s, i + 4)>>) = <<"s">> /\ At(s, i + 5) = ":" THEN i + 5
  ELSE IF At(s, i + 4) = ":" THEN i + 4
  ELSE 0

\* itemText.match(/notes?:\s*"([^"]+)"/i) || itemText.match(/notes?:\s*([^-\n]+)/i),
\* trimmed; no match gives ''
notesOf(s) ==
  LET open(i) == notesColon(s, i) + 1 + wsRun(s, notesColon(s, i) + 1)
      close(i) == NextOf(s, open(i) + 1, {"\""})
      quoted == {i \in DOMAIN s :
                   /\ notesColon(s, i) # 0
                   /\ At(s, open(i)) = "\""
                   /\ close(i) <= Len(s)
                   /\ close(i) >= open(i) + 2}
      plain == {i \in DOMAIN s :
                  /\ notesColon(s, i) # 0
                  /\ \/ open(i) <= Len(s) /\ s[open(i)] \notin {"-", "\n"}
                     \/ wsRun(s, notesColon(s, i) + 1) >= 1}
  IN  IF quoted # {}
      THEN trim(Slice(s, open(First(quoted)) + 1, close(First(quoted)) - 1))
      ELSE IF plain # {}
      THEN LET i == First(plain)
           IN  IF open(i) <= Len(s) /\ s[open(i)] \notin {"-", "\n"}
               THEN trim(Slice(s, open(i), NextOf(s, open(i), {"-", "\n"}) - 1))
               ELSE <<>>
      ELSE <<>>

\* itemText.match(/\[(hardcopy|audio|ebook|streaming|theater|blu-ray|dvd)\]/i),
\* in lower case; no match gives ''
formatOf(s) ==
  LET named(i, k) == /\ s[i] = "["
                     /\ toLowerCase(Slice(s, i + 1, i + Len(formatNames[k]))) = formatNames[k]
                     /\ At(s, i + Len(formatNames[k]) + 1) = "]"
      at == {i \in DOMAIN s : \E k \in DOMAIN formatNames : named(i, k)}
  IN  IF at = {} THEN <<>>
      ELSE formatNames[CHOOSE k \in DOMAIN formatNames : named(First(at), k)]

\* the section header a line is taken for: the category it sets and the type
\* it sets ("" if it leaves the type), or no header
NoHeader == [header |-> FALSE]
Header(category, type) == [header |-> TRUE, category |-> category, type |-> type]
kindOf(lowerLine) ==
  IF Includes(lowerLine, <<"b", "o", "o", "k">>) \/ SomeIncluded(lowerLine, bookKeywords)
  THEN "book"
  ELSE IF Includes(lowerLine, <<"m", "o", "v", "i", "e">>)
            \/ SomeIncluded(lowerLine, movieKeywords)
  THEN "movie"
  ELSE ""
\* a test of the headers that tries the allTime rule first
headerOfAllTimeFirst(lowerLine) ==
  LET completed == \/ SomeIncluded(lowerLine, completedKeywords)
                   \/ Includes(lowerLine, <<"c", "o", "m", "p", "l", "e", "t", "e", "d">>)
  IN  IF SomeIncluded(lowerLine, allTimeKeywords) THEN Header("allTime", "")
      ELSE IF Includes(lowerLine, <<"b", "o", "o", "k">>) /\ completed
      THEN Header("completed", "book")
      ELSE IF Includes(lowerLine, <<"m", "o", "v", "i", "e">>) /\ completed
      THEN Header("completed", "movie")
      ELSE IF SomeIncluded(lowerLine, inProgressKeywords)
      THEN Header("inProgress", kindOf(lowerLine))
      ELSE IF SomeIncluded(lowerLine, plannedKeywords)
      THEN Header("planned", kindOf(lowerLine))
      ELSE IF SomeIncluded(lowerLine, failsKeywords) THEN Header("fails", "")
      ELSE NoHeader

headerOf(lowerLine) ==
  LET completed == \/ SomeIncluded(lowerLine, completedKeywords)
                   \/ Includes(lowerLine, <<"c", "o", "m", "p", "l", "e", "t", "e", "d">>)
  IN  IF Includes(lowerLine, <<"b", "o", "o", "k">>) /\ completed
      THEN Header("completed", "book")
      ELSE IF Includes(lowerLine, <<"m", "o", "v", "i", "e">>) /\ completed
      THEN Header("completed", "movie")
      ELSE IF SomeIncluded(lowerLine, inProgressKeywords)
      THEN Header("inProgress", kindOf(lowerLine))
      ELSE IF SomeIncluded(lowerLine, plannedKeywords)
      THEN Header("planned", kindOf(lowerLine))
      ELSE IF SomeIncluded(lowerLine, failsKeywords) THEN Header("fails", "")
      ELSE IF SomeIncluded(lowerLine, allTimeKeywords) THEN Header("allTime", "")
      ELSE NoHeader

\* the obvious header lines that are skipped
skipped(lowerLine) ==
  \/ Includes(lowerLine, <<"g", "e", "n", "e", "r", "a", "t", "e", "d">>)
  \/ Includes(lowerLine, <<"e", "x", "p", "o", "r", "t">>)
  \/ Includes(lowerLine, <<"U+2550">>)
  \/ Includes(lowerLine, <<"U+2500">>)

\* whether an item line is a book's, under the type the headers have set
isBookOf(lowerLine, currentType) ==
  IF currentType # "unknown" THEN currentType = "book"
  ELSE LET bookScore == Score(lowerLine, bookKeywords)
           movieScore == Score(lowerLine, movieKeywords)
       IN  IF bookScore > movieScore THEN TRUE
           ELSE IF movieScore > bookScore THEN FALSE
           ELSE /\ ~Includes(lowerLine, <<"d", "i", "r", "e", "c", "t", "o", "r">>)
                /\ ~Includes(lowerLine, <<"f", "i", "l", "m">>)

\* the items one item line gives: one, or none if its title has less than
\* two characters.  The confidence is counted in tenths.
itemsOf(line, currentCategory, currentType) ==
  LET itemText == trim(itemTextOf(line))
      match == titleAndAuthor(itemText)
      matched == match # NoMatch
      title == IF matched THEN stripQuotes(trim(match[1])) ELSE bareTitle(itemText)
      author == IF matched THEN trim(match[2])
                ELSE IF trim(Slice(itemText, numbering(itemText) + 1, Len(itemText))) # <<>>
                THEN Unknown ELSE <<>>
      year == yearOf(itemText)
      rating == ratingOf(itemText)
      confidence == 5 + (IF title # <<>> /\ author # <<>> /\ author # Unknown THEN 3 ELSE 0)
                      + (IF TruthyNumber(year) THEN 1 ELSE 0)
                      + (IF TruthyNumber(rating) THEN 1 ELSE 0)
                      + (IF formatOf(itemText) # <<>> THEN 1 ELSE 0)
  IN  IF Len(title) > 1
      THEN <<[title |-> title,
              author |-> IF author = <<>> THEN Unknown ELSE author,
              year |-> year,
              rating |-> rating,
              notes |-> notesOf(itemText),
              format |-> formatOf(itemText),
              category |-> currentCategory,
              isBook |-> isBookOf(toLowerCase(line), currentType),
              confidence |-> Min(confidence, 10)]>>
      ELSE <<>>

\* for (const line of lines), from line k on
RECURSIVE parseLines(_, _, _, _)
parseLines(lines, k, currentCategory, currentType) ==
  IF k > Len(lines) THEN <<>>
  ELSE LET lowerLine == toLowerCase(lines[k])
           header == headerOf(lowerLine)
       IN  IF header.header
           THEN parseLines(lines, k + 1, header.category,
                           IF header.type = "" THEN currentType ELSE header.type)
           ELSE IF skipped(lowerLine)
           THEN parseLines(lines, k + 1, currentCategory, currentType)
           ELSE itemsOf(lines[k], currentCategory, currentType)
                  \o parseLines(lines, k + 1, currentCategory, currentType)

parseImportText(text) ==
  parseLines(SelectSeq(split(text), LAMBDA line : trim(line) # <<>>), 1, "completed", "unknown")


(***************************************************************************)
(* The state machine.  crashed: an updater threw, which React rethrows     *)
(* while rendering the provider, and the store is gone.  calls, lastCall   *)
(* and issued are history: the number of calls made, the last call with    *)
(* what it logged, and the ids given to the items stored so far, in the    *)
(* order they were given.  timers counts the callbacks setTimeout holds    *)
(* (they are all the same closure); received is what each listener was     *)
(* called with, in order.                                                  *)
(***************************************************************************)
\* the listeners the providers register in their mount effects: the one of
\* the provider of this store, and the one of a second provider
Listeners == {"handleStateChange", "handleStateChange2"}

\* the import modal before it was ever opened: showImportModal of the home
\* tab, the four useState of the modal, and the parse timers setTimeout holds,
\* each with the importText its closure has
initialModal ==
  [visible |-> FALSE, importText |-> NoString, isProcessing |-> FALSE,
   parsedItems |-> <<>>, showPreview |-> FALSE, timers |-> <<>>]

Init ==
  /\ books = initialBooks
  /\ movies = initialMovies
  /\ bookGoal = 50
  /\ movieGoal = 50
  /\ globalStateVersion = 0
  /\ stateChangeListeners = <<"handleStateChange">>
  /\ timers = 0
  /\ received = [listener \in Listeners |-> <<>>]
  /\ crashed = FALSE
  /\ calls = 0
  /\ lastCall = [op |-> "none", log |-> "none"]
  /\ issued = [books |-> <<>>, movies |-> <<>>]
  /\ modal = initialModal

Ready == ~crashed /\ calls < MaxCalls /\ calls' = calls + 1

\* a notifyStateChange that calls the listeners itself, in the call
notifySynchronously(n) ==
  /\ globalStateVersion' = globalStateVersion + n
  /\ timers' = timers
  /\ received' = [listener \in Listeners |->
                    received[listener] \o [k \in 1 .. n |-> globalStateVersion + k]]

\* notifyStateChange called n times: globalStateVersion++ and setTimeout(..., 0),
\* which calls no listener now
notifyStateChange(n) ==
  /\ globalStateVersion' = globalStateVersion + n
  /\ timers' = timers + n
  /\ received' = received

\* what a handler leaves behind: the updaters' result if none threw
Commit(prev, r) == IF r.threw THEN prev ELSE r.catalog

addBook(item, random) ==
  /\ Ready
  /\ LET r == add(books, item, Epoch, random)
         new == newItem(item, Epoch, random)
     IN  /\ books' = Commit(books, r)
         /\ notifyStateChange(r.notified)
         /\ crashed' = r.threw
         /\ lastCall' = [op |-> "addBook", log |-> r.log, item |-> new]
         /\ issued' = IF r.log = "added"
                      THEN [issued EXCEPT !.books = Append(@, [by |-> "add", id |-> new.id])]
                      ELSE issued
  /\ UNCHANGED <<movies, bookGoal, movieGoal, stateChangeListeners, modal>>

addMovie(item, random) ==
  /\ Ready
  /\ LET r == add(movies, item, Epoch, random)
         new == newItem(item, Epoch, random)
     IN  /\ movies' = Commit(movies, r)
         /\ notifyStateChange(r.notified)
         /\ crashed' = r.threw
         /\ lastCall' = [op |-> "addMovie", log |-> r.log, item |-> new]
         /\ issued' = IF r.log = "added"
                      THEN [issued EXCEPT !.movies = Append(@, [by |-> "add", id |-> new.id])]
                      ELSE issued
  /\ UNCHANGED <<books, bookGoal, movieGoal, stateChangeListeners, modal>>

updateBook(bookId, updatedBook) ==
  /\ Ready
  /\ LET r == update(books, bookId, updatedBook)
     IN  /\ books' = Commit(books, r)
         /\ notifyStateChange(r.notified)
         /\ crashed' = r.threw
         /\ lastCall' = [op |-> "updateBook", log |-> r.log, id |-> bookId, item |-> updatedBook]
  /\ UNCHANGED <<movies, issued, bookGoal, movieGoal, stateChangeListeners, modal>>

updateMovie(movieId, updatedMovie) ==
  /\ Ready
  /\ LET r == update(movies, movieId, updatedMovie)
     IN  /\ movies' = Commit(movies, r)
         /\ notifyStateChange(r.notified)
         /\ crashed' = r.threw
         /\ lastCall' = [op |-> "updateMovie", log |-> r.log, id |-> movieId, item |-> updatedMovie]
  /\ UNCHANGED <<books, issued, bookGoal, movieGoal, stateChangeListeners, modal>>

deleteBook(bookId, category) ==
  /\ Ready
  /\ LET r == delete(books, bookId, category)
     IN  /\ books' = Commit(books, r)
         /\ notifyStateChange(r.notified)
         /\ crashed' = r.threw
         /\ lastCall' = [op |-> "deleteBook", log |-> r.log, id |-> bookId, category |-> category]
  /\ UNCHANGED <<movies, issued, bookGoal, movieGoal, stateChangeListeners, modal>>

deleteMovie(movieId, category) ==
  /\ Ready
  /\ LET r == delete(movies, movieId, category)
     IN  /\ movies' = Commit(movies, r)
         /\ notifyStateChange(r.notified)
         /\ crashed' = r.threw
         /\ lastCall' = [op |-> "deleteMovie", log |-> r.log, id |-> movieId, category |-> category]
  /\ UNCHANGED <<books, issued, bookGoal, movieGoal, stateChangeListeners, modal>>

reorderBooks(category, fromIndex, toIndex) ==
  /\ Ready
  /\ LET r == reorder(books, category, fromIndex, toIndex)
     IN  /\ books' = Commit(books, r)
         /\ notifyStateChange(r.notified)
         /\ crashed' = r.threw
         /\ lastCall' = [op |-> "reorderBooks", log |-> r.log, category |-> category,
                         fromIndex |-> fromIndex, toIndex |-> toIndex]
  /\ UNCHANGED <<movies, issued, bookGoal, movieGoal, stateChangeListeners, modal>>

reorderMovies(category, fromIndex, toIndex) ==
  /\ Ready
  /\ LET r == reorder(movies, category, fromIndex, toIndex)
     IN  /\ movies' = Commit(movies, r)
         /\ notifyStateChange(r.notified)
         /\ crashed' = r.threw
         /\ lastCall' = [op |-> "reorderMovies", log |-> r.log, category |-> category,
                         fromIndex |-> fromIndex, toIndex |-> toIndex]
  /\ UNCHANGED <<books, issued, bookGoal, movieGoal, stateChangeListeners, modal>>

\* the books' updater is queued first; the movies' one runs if it did not throw
importItems(importedBooks, importedMovies) ==
  /\ Ready
  /\ LET rb == import(books, importedBooks, Epoch)
         rm == IF rb.threw THEN Thrown(movies) ELSE import(movies, importedMovies, Epoch)
         threw == rb.threw \/ rm.threw
         bookIds == batchIds(importedBooks, Epoch)
         movieIds == batchIds(importedMovies, Epoch)
     IN  /\ books' = IF threw THEN books ELSE rb.catalog
         /\ movies' = IF threw THEN movies ELSE rm.catalog
         /\ notifyStateChange(rb.notified + rm.notified)
         /\ crashed' = threw
         /\ lastCall' = [op |-> "importItems", log |-> IF threw THEN "TypeError" ELSE "imported",
                         bookIds |-> bookIds, movieIds |-> movieIds,
                         importedBooks |-> importedBooks, importedMovies |-> importedMovies]
         /\ issued' = IF threw THEN issued
                      ELSE [books |-> issued.books \o [k \in DOMAIN bookIds |-> [by |-> "import", id |-> bookIds[k]]],
                            movies |-> issued.movies \o [k \in DOMAIN movieIds |-> [by |-> "import", id |-> movieIds[k]]]]
  /\ UNCHANGED <<bookGoal, movieGoal, stateChangeListeners, modal>>

\* the setters of useState, handed out as they are
setBookGoal(goal) ==
  /\ Ready
  /\ bookGoal' = goal
  /\ lastCall' = [op |-> "setBookGoal", log |-> "set", goal |-> goal]
  /\ UNCHANGED <<books, movies, movieGoal, globalStateVersion, stateChangeListeners,
                 timers, received, crashed, issued, modal>>

setMovieGoal(goal) ==
  /\ Ready
  /\ movieGoal' = goal
  /\ lastCall' = [op |-> "setMovieGoal", log |-> "set", goal |-> goal]
  /\ UNCHANGED <<books, movies, bookGoal, globalStateVersion, stateChangeListeners,
                 timers, received, crashed, issued, modal>>

\* the event loop runs the oldest callback of setTimeout: every listener is
\* called with globalStateVersion as it is now
timeout ==
  /\ ~crashed
  /\ timers > 0
  /\ timers' = timers - 1
  /\ received' = [listener \in Listeners |->
                    IF \E k \in DOMAIN stateChangeListeners : stateChangeListeners[k] = listener
                    THEN Append(received[listener], globalStateVersion)
                    ELSE received[listener]]
  /\ UNCHANGED <<books, movies, bookGoal, movieGoal, globalStateVersion,
                 stateChangeListeners, crashed, calls, lastCall, issued, modal>>

(***************************************************************************)
(* The arguments the calls are tried with.                                 *)
(***************************************************************************)
CategoryArgs == Categories \cup {"wishlist"}

\* indices from one below to one past the bucket
IndexArgs(catalog, category) ==
  IF category \in Categories THEN -1 .. Len(catalog[category]) ELSE {0}

\* the ids the calls address: the first completed item, the allTime item, every
\* item stored since construction, and an id no item has
NoSuchId == 999
IdArgs(catalog) ==
  {id \in IdsOf(catalog) : id \in {1, 400} \/ id >= Epoch} \cup {NoSuchId}

\* the buckets reorder is tried on
ReorderArgs == {"completed", "planned", "wishlist"}

\* lists of <<item, random>> of a given length; one call takes MaxBatch items
\* at most, books and movies together
Batches(n) == [1 .. n -> ImportInputs \X Randoms]
ImportArgs ==
  UNION {UNION {Batches(n) \X Batches(m) : m \in 0 .. MaxBatch - n} : n \in 0 .. MaxBatch}

AddCalls ==
  \/ \E item \in AddInputs, random \in Randoms : addBook(item, random)
  \/ \E item \in AddInputs, random \in Randoms : addMovie(item, random)

UpdateCalls ==
  \/ \E id \in IdArgs(books) : \E item \in UpdateInputs(id) : updateBook(id, item)
  \/ \E id \in IdArgs(movies) : \E item \in UpdateInputs(id) : updateMovie(id, item)

DeleteCalls ==
  \/ \E id \in IdArgs(books), category \in CategoryArgs : deleteBook(id, category)
  \/ \E id \in IdArgs(movies), category \in CategoryArgs : deleteMovie(id, category)

ReorderCalls ==
  \/ \E category \in ReorderArgs :
       \E fromIndex \in IndexArgs(books, category), toIndex \in IndexArgs(books, category) :
         reorderBooks(category, fromIndex, toIndex)
  \/ \E category \in ReorderArgs :
       \E fromIndex \in IndexArgs(movies, category), toIndex \in IndexArgs(movies, category) :
         reorderMovies(category, fromIndex, toIndex)

ImportCalls ==
  \E args \in ImportArgs : importItems(args[1], args[2])

\* an export that tells the listeners that it ran
exportAndNotify ==
  /\ Ready
  /\ lastCall' = [op |-> "generateComprehensiveExport",
                  log |-> IF AnyHole(books) \/ AnyHole(movies) THEN "error" ELSE "exported",
                  text |-> exportText]
  /\ notifyStateChange(1)
  /\ UNCHANGED <<books, movies, bookGoal, movieGoal, stateChangeListeners, crashed, issued, modal>>

\* generateComprehensiveExport(): the text it returns goes to the share sheet
generateComprehensiveExport ==
  /\ Ready
  /\ lastCall' = [op |-> "generateComprehensiveExport",
                  log |-> IF AnyHole(books) \/ AnyHole(movies) THEN "error" ELSE "exported",
                  text |-> exportText]
  /\ UNCHANGED <<books, movies, bookGoal, movieGoal, globalStateVersion,
                 stateChangeListeners, timers, received, crashed, issued, modal>>

\* the goal the goal modal saves: parseInt(tempGoal) || 1
GoalArgs == {1, 12}
GoalCalls ==
  \/ \E goal \in GoalArgs : setBookGoal(goal)
  \/ \E goal \in GoalArgs : setMovieGoal(goal)

Next ==
  \/ AddCalls \/ UpdateCalls \/ DeleteCalls \/ ReorderCalls \/ ImportCalls
  \/ GoalCalls
  \/ generateComprehensiveExport
  \/ timeout

\* every handler, called in any order
Spec == Init /\ [][Next]_vars

\* add called again and again on the constructed store
SpecAdd == Init /\ [][AddCalls]_vars

\* reorder called again and again on the constructed store
SpecReorder == Init /\ [][ReorderCalls]_vars

\* the add form of the books tab
BookAddCalls ==
  \E item \in AddInputs, random \in Randoms : addBook(item, random)

\* adds of books and changes of the goals, with the event loop firing the timers
SpecNotify == Init /\ [][BookAddCalls \/ GoalCalls \/ timeout]_vars

\* adds of books and changes of the goals with exports in between, and the
\* event loop firing the timers
SpecExport ==
  Init /\ [][BookAddCalls \/ GoalCalls \/ generateComprehensiveExport \/ timeout]_vars
(***************************************************************************)
(* The import modal (src/unnamed/part_001) and the registry of listeners.  *)
(* The modal stays mounted while it is hidden, so its state and its timers *)
(* outlive handleClose.                                                    *)
(***************************************************************************)
\* onImportPress of the home tab: setShowImportModal(true)
onImportPress ==
  /\ ~modal.visible
  /\ modal' = [modal EXCEPT !.visible = TRUE]
  /\ UNCHANGED <<books, movies, bookGoal, movieGoal, globalStateVersion,
                 stateChangeListeners, timers, received, crashed, calls, lastCall, issued>>

\* onChangeText of the text input, which the modal shows unless it shows the
\* preview
setImportText(text) ==
  /\ modal.visible
  /\ ~modal.showPreview
  /\ modal' = [modal EXCEPT !.importText = text]
  /\ UNCHANGED <<books, movies, bookGoal, movieGoal, globalStateVersion,
                 stateChangeListeners, timers, received, crashed, calls, lastCall, issued>>

\* the most parse timers pending at a time
MaxTimers == 2

\* handleParseText, which the parse button calls; the button is disabled
\* while importText is blank or a parse is running.  setTimeout keeps the
\* closure, and with it the importText of this render.
handleParseText ==
  /\ modal.visible
  /\ ~modal.showPreview
  /\ trim(modal.importText) # <<>>
  /\ ~modal.isProcessing
  /\ Len(modal.timers) < MaxTimers
  /\ modal' = [modal EXCEPT !.isProcessing = TRUE,
                            !.timers = Append(@, modal.importText)]
  /\ lastCall' = [op |-> "handleParseText", log |-> "processing", text |-> modal.importText]
  /\ UNCHANGED <<books, movies, bookGoal, movieGoal, globalStateVersion,
                 stateChangeListeners, timers, received, crashed, calls, issued>>

\* the callback handleParseText gave to setTimeout(..., 1000)
parseTimeout ==
  /\ modal.timers # <<>>
  /\ modal' = [modal EXCEPT !.parsedItems = parseImportText(Head(modal.timers)),
                            !.showPreview = TRUE,
                            !.isProcessing = FALSE,
                            !.timers = Tail(@)]
  /\ UNCHANGED <<books, movies, bookGoal, movieGoal, globalStateVersion,
                 stateChangeListeners, timers, received, crashed, calls, lastCall, issued>>

\* resetModal(): the four setters; no timer is cleared
resetModal(m) ==
  [m EXCEPT !.importText = NoString, !.parsedItems = <<>>, !.showPreview = FALSE,
            !.isProcessing = FALSE]

\* handleClose of the close button: resetModal(), then onClose(), which is
\* setShowImportModal(false)
handleClose ==
  /\ modal.visible
  /\ modal' = [resetModal(modal) EXCEPT !.visible = FALSE]
  /\ lastCall' = [op |-> "handleClose", log |-> "closed"]
  /\ UNCHANGED <<books, movies, bookGoal, movieGoal, globalStateVersion,
                 stateChangeListeners, timers, received, crashed, calls, issued>>

\* adds of books, exports, and the export that went to the share sheet pasted
\* into the text input of the import modal and parsed there
SpecRoundTrip ==
  Init /\ [][\/ BookAddCalls
             \/ generateComprehensiveExport
             \/ onImportPress
             \/ (lastCall.op = "generateComprehensiveExport" /\ setImportText(lastCall.text))
             \/ handleParseText
             \/ parseTimeout]_vars

\* the edit form of the books tab saving again and again, and the event loop
\* firing the timers
SpecUpdate ==
  Init /\ [][\/ \E id \in IdArgs(books) : \E item \in UpdateInputs(id) : updateBook(id, item)
             \/ timeout]_vars

\* the most lines a pasted text has
MaxLines == 3

\* the texts pasted into the modal: one item line in every combination of
\* numbering, title and author, year, rating and format, and the texts of at
\* most MaxLines lines made of section headers and items
ParseTexts ==
  LET numberings == {NoString, <<"1", ".", " ">>}
      bodies == {<<"\"", "P", "r", "o", "j", "e", "c", "t", " ", "H", "a", "i", "l", " ", "M", "a", "r", "y", "\"", " ", "b", "y", " ", "A", "n", "d", "y", " ", "W", "e", "i", "r">>,
                 <<"O", "p", "p", "e", "n", "h", "e", "i", "m", "e", "r", " ", "-", " ", "C", "h", "r", "i", "s", "t", "o", "p", "h", "e", "r", " ", "N", "o", "l", "a", "n">>,
                 <<"D", "u", "n", "e", ",", " ", "F", "r", "a", "n", "k", " ", "H", "e", "r", "b", "e", "r", "t">>,
                 <<"D", "u", "n", "e", " ", "b", "y", " ", "F", "r", "a", "n", "k", " ", "H", "e", "r", "b", "e", "r", "t">>,
                 <<"S", "o", "m", "e", " ", "U", "n", "t", "i", "t", "l", "e", "d", " ", "T", "h", "i", "n", "g">>,
                 <<"X">>}
      years == {NoString, <<" ", "(", "2", "0", "2", "1", ")">>, <<" ", "(", "2", "0", "2", "3", ")">>}
      ratings == {NoString, <<" ", "0", "/", "5">>, <<" ", "4", "/", "5">>,
                  <<" ", "U+2B50", " ", "5", "/", "5">>,
                  <<" ", "U+2605", "U+2605", "U+2605">>}
      formats == {NoString, <<" ", "[", "A", "u", "d", "i", "o", "]">>}
      lines == {<<"F", "a", "v", "o", "r", "i", "t", "e", " ", "b", "o", "o", "k", "s", " ", "I", " ", "f", "i", "n", "i", "s", "h", "e", "d">>,
                <<"B", "e", "s", "t", " ", "m", "o", "v", "i", "e", "s", " ", "w", "a", "t", "c", "h", "e", "d">>,
                <<"S", "t", "o", "p", "p", "e", "d", " ", "w", "a", "t", "c", "h", "i", "n", "g">>,
                <<"A", "b", "a", "n", "d", "o", "n", "e", "d", " ", "w", "i", "s", "h", "l", "i", "s", "t">>,
                <<"D", "N", "F", " ", "f", "a", "v", "o", "r", "i", "t", "e", "s">>,
                <<"F", "a", "v", "o", "r", "i", "t", "e", "s">>,
                <<"D", "u", "n", "e", ",", " ", "F", "r", "a", "n", "k", " ", "H", "e", "r", "b", "e", "r", "t">>}
      joined(ls) == [k \in 1 .. Len(ls) |-> IF k = 1 THEN ls[k] ELSE <<"\n">> \o ls[k]]
      RECURSIVE concat(_)
      concat(ls) == IF ls = <<>> THEN <<>> ELSE Head(ls) \o concat(Tail(ls))
  IN  {ordinal \o body \o year \o rating \o format :
         ordinal \in numberings, body \in bodies, year \in years,
         rating \in ratings, format \in formats}
        \cup {concat(joined(ls)) : ls \in UNION {[1 .. n -> lines] : n \in 1 .. MaxLines}}

\* the modal open with a text pasted into it
InitParse ==
  /\ books = initialBooks
  /\ movies = initialMovies
  /\ bookGoal = 50
  /\ movieGoal = 50
  /\ globalStateVersion = 0
  /\ stateChangeListeners = <<"handleStateChange">>
  /\ timers = 0
  /\ received = [listener \in Listeners |-> <<>>]
  /\ crashed = FALSE
  /\ calls = 0
  /\ lastCall = [op |-> "none", log |-> "none"]
  /\ issued = [books |-> <<>>, movies |-> <<>>]
  /\ modal \in {[initialModal EXCEPT !.visible = TRUE, !.importText = text] :
                  text \in ParseTexts}

\* the parse button pressed on each of the texts, and its timer
SpecParse == InitParse /\ [][handleParseText \/ parseTimeout]_vars

\* what the user does with the modal: open it, type one of three texts, press
\* the parse button, close it; and the event loop firing the parse timers
SpecModal ==
  Init /\ [][\/ onImportPress
             \/ \E text \in {<<"D", "u", "n", "e", ",", " ", "F", "r", "a", "n", "k", " ", "H", "e", "r", "b", "e", "r", "t">>,
                             <<"O", "p", "p", "e", "n", "h", "e", "i", "m", "e", "r", " ", "-", " ", "C", "h", "r", "i", "s", "t", "o", "p", "h", "e", "r", " ", "N", "o", "l", "a", "n", " ", "(", "2", "0", "2", "3", ")">>,
                             <<"S", "o", "m", "e", " ", "U", "n", "t", "i", "t", "l", "e", "d", " ", "T", "h", "i", "n", "g">>} :
                  setImportText(text)
             \/ handleParseText
             \/ handleClose
             \/ parseTimeout]_vars

\* the mount effect of a provider: stateChangeListeners.push(handleStateChange)
mount(listener) ==
  /\ \A k \in DOMAIN stateChangeListeners : stateChangeListeners[k] # listener
  /\ stateChangeListeners' = Append(stateChangeListeners, listener)
  /\ UNCHANGED <<books, movies, bookGoal, movieGoal, globalStateVersion, timers,
                 received, crashed, calls, lastCall, issued, modal>>

\* a cleanup that empties the registry
unmountAll(listener) ==
  /\ \E k \in DOMAIN stateChangeListeners : stateChangeListeners[k] = listener
  /\ stateChangeListeners' = <<>>
  /\ lastCall' = [op |-> "unmount", log |-> "unregistered", listener |-> listener,
                  pending |-> timers]
  /\ UNCHANGED <<books, movies, bookGoal, movieGoal, globalStateVersion, timers,
                 received, crashed, calls, issued, modal>>

\* the cleanup of the mount effect:
\* stateChangeListeners = stateChangeListeners.filter(listener => listener !== handleStateChange)
unmount(listener) ==
  /\ \E k \in DOMAIN stateChangeListeners : stateChangeListeners[k] = listener
  /\ stateChangeListeners' = SelectSeq(stateChangeListeners, LAMBDA l : l # listener)
  /\ lastCall' = [op |-> "unmount", log |-> "unregistered", listener |-> listener,
                  pending |-> timers]
  /\ UNCHANGED <<books, movies, bookGoal, movieGoal, globalStateVersion, timers,
                 received, crashed, calls, issued, modal>>

\* adds of completed books while providers mount and unmount, and the event loop firing
\* the timers
SpecSubscribe ==
  Init /\ [][\/ \E item \in {i \in AddInputs : i.category = "completed"} : addBook(item, 0)
             \/ \E listener \in Listeners : mount(listener)
             \/ \E listener \in Listeners : unmount(listener)
             \/ timeout]_vars


(***************************************************************************)
(* formatItem on its own.  The items it is tried on have every optional    *)
(* field absent or present, a rating of 0 and a percentage of 0 and of 100 *)
(* included; lastCall holds the arguments first and the line afterwards.   *)
(***************************************************************************)

FormatInputs ==
  {Entry(Dune, Herbert, 1965, "completed", format, rating, percentage, completedDate,
         dateStarted, dateAdded, source, isAllTime, notes) :
     format \in {NoString, <<"t", "e", "x", "t">>},
     rating \in {Undefined, 0, 4},
     percentage \in {Undefined, 0, 50, 100},
     completedDate \in {NoString, <<"2", "0", "2", "4", "-", "0", "1", "-", "1", "5">>},
     dateStarted \in {NoString, <<"2", "0", "2", "5", "-", "1", "2", "-", "0", "3">>},
     dateAdded \in {NoString, <<"2", "0", "2", "4", "-", "0", "1", "-", "1", "5">>},
     source \in {NoString, <<"L", "i", "b", "r", "a", "r", "y">>},
     isAllTime \in BOOLEAN,
     notes \in {NoString, <<"E", "p", "i", "c">>}}

InitFormat ==
  /\ books = initialBooks
  /\ movies = initialMovies
  /\ bookGoal = 50
  /\ movieGoal = 50
  /\ globalStateVersion = 0
  /\ stateChangeListeners = <<"handleStateChange">>
  /\ timers = 0
  /\ received = [listener \in Listeners |-> <<>>]
  /\ crashed = FALSE
  /\ calls = 0
  /\ lastCall \in {[op |-> "formatItem", log |-> "pending", item |-> item, index |-> index,
                     isBook |-> isBook, text |-> NoString] :
                      item \in FormatInputs, index \in {0, 9}, isBook \in BOOLEAN}
  /\ issued = [books |-> <<>>, movies |-> <<>>]
  /\ modal = initialModal

\* formatItem(item, index, isBook) on the arguments drawn
formatItemCall ==
  /\ lastCall.op = "formatItem"
  /\ lastCall.log = "pending"
  /\ lastCall' = [lastCall EXCEPT
                    !.log = "formatted",
                    !.text = formatItem(lastCall.item, lastCall.index, lastCall.isBook)]
  /\ UNCHANGED <<books, movies, bookGoal, movieGoal, globalStateVersion,
                 stateChangeListeners, timers, received, crashed, calls, issued, modal>>

SpecFormat == InitFormat /\ [][formatItemCall]_vars


(***************************************************************************)
(* Properties.  They read the catalogs through definitions of their own,   *)
(* not through the operators the handlers are built from.                  *)
(***************************************************************************)
AddOps == {"addBook", "addMovie"}
UpdateOps == {"updateBook", "updateMovie"}
DeleteOps == {"deleteBook", "deleteMovie"}
ReorderOps == {"reorderBooks", "reorderMovies"}
BookOps == {"addBook", "updateBook", "deleteBook", "reorderBooks"}
PrimaryCategories == Categories \ {"allTime"}

\* the catalog a call works on, before and after the step
Before(op) == IF op \in BookOps THEN books ELSE movies
After(op) == IF op \in BookOps THEN books' ELSE movies'
\* the catalog the last call worked on
Current(op) == IF op \in BookOps THEN books ELSE movies
\* the other catalog is left alone by the step
OtherUnchanged(op) == IF op \in BookOps THEN movies' = movies ELSE books' = books

\* the items of a bucket, and the ids found in a bucket or in a catalog
ItemsOf(bucket) == {bucket[i] : i \in {j \in DOMAIN bucket : bucket[j] # undefined}}
BucketIds(bucket) == {item.id : item \in ItemsOf(bucket)}
CatalogIds(catalog) == UNION {BucketIds(catalog[c]) : c \in Categories}
IdsGiven(given) == {given[k].id : k \in DOMAIN given}
NoRepeats(s) == \A i, j \in DOMAIN s : i # j => s[i] # s[j]

\* two strings equal up to the case of their letters
EqualIgnoringCase(s, t) ==
  /\ Len(s) = Len(t)
  /\ \A i \in DOMAIN s :
       \/ s[i] = t[i]
       \/ \E k \in DOMAIN UpperCase : {s[i], t[i]} = {UpperCase[k], LowerCase[k]}

\* the positions of a bucket that hold the work (title and author) of an item
Matching(bucket, item) ==
  {i \in DOMAIN bucket :
     /\ bucket[i] # undefined
     /\ EqualIgnoringCase(bucket[i].title, item.title)
     /\ EqualIgnoringCase(bucket[i].author, item.author)}

\* C1: an add that stores its item gives it an id that no item of that catalog
\* has and that was given to no item stored in that catalog before
C1_AddIdIsFresh ==
  [][(lastCall'.op \in AddOps /\ lastCall'.log = "added")
       => lastCall'.item.id \notin
            CatalogIds(Before(lastCall'.op))
              \cup IdsGiven(IF lastCall'.op \in BookOps THEN issued.books ELSE issued.movies)]_vars

\* C2: the ids one importItems call gives the items of a batch are pairwise
\* distinct and differ from every id the catalog held before the call
C2_BatchIdsAreDistinct ==
  [][(lastCall'.op = "importItems" /\ ~crashed')
       => /\ NoRepeats(lastCall'.bookIds)
          /\ NoRepeats(lastCall'.movieIds)
          /\ {lastCall'.bookIds[k] : k \in DOMAIN lastCall'.bookIds} \cap CatalogIds(books) = {}
          /\ {lastCall'.movieIds[k] : k \in DOMAIN lastCall'.movieIds} \cap CatalogIds(movies) = {}]_vars

\* C3: an add into a bucket that already holds the title and author, in any
\* case, leaves that bucket as it is (the second call adds nothing); an add
\* into a bucket that does not hold them leaves exactly one item with them.
\* So two adds of the same title, author and category leave exactly one.
C3_SecondAddAddsNothing ==
  [][(/\ lastCall'.op \in AddOps
      /\ ~crashed'
      /\ lastCall'.item.category \in Categories)
       => LET category == lastCall'.item.category
              before == Before(lastCall'.op)[category]
              after == After(lastCall'.op)[category]
          IN  /\ Matching(before, lastCall'.item) # {} => after = before
              /\ Matching(before, lastCall'.item) = {}
                   => Cardinality(Matching(after, lastCall'.item)) = 1]_vars

\* C3 witness: an add was rejected as a duplicate of an item whose title is
\* written in another case, and the bucket holds that one item only
C3_Witness ==
  /\ lastCall.op \in AddOps
  /\ lastCall.log = "duplicate"
  /\ LET bucket == Current(lastCall.op)[lastCall.item.category]
         hits == Matching(bucket, lastCall.item)
     IN  /\ Cardinality(hits) = 1
         /\ \A i \in hits : bucket[i].title # lastCall.item.title
         /\ lastCall.item.id \notin BucketIds(bucket)

\* C4: no bucket of either catalog holds two items with the same title and
\* the same author, compared without regard to case
C4_NoDuplicateWork ==
  \A catalog \in {books, movies} : \A c \in Categories :
    \A i, j \in DOMAIN catalog[c] :
      (i < j /\ catalog[c][i] # undefined /\ catalog[c][j] # undefined)
        => j \notin Matching(catalog[c], catalog[c][i])

\* C5: the item an add or an update stored with category completed has
\* percentage 100
C5_CompletedIsHundred ==
  (/\ lastCall.op \in AddOps \cup UpdateOps
   /\ lastCall.log \in {"added", "updated"}
   /\ ~crashed
   /\ lastCall.item.category = "completed")
    => \A item \in ItemsOf(Current(lastCall.op).completed) :
         item.id = lastCall.item.id => item.percentage = 100

\* C6: after an add, an update or an import, every stored item with
\* isAllTime has an entry with its id in the allTime bucket of its catalog
C6_FavoritesAreMirrored ==
  (lastCall.op \in AddOps \cup UpdateOps \cup {"importItems"} /\ ~crashed)
    => \A catalog \in {books, movies} : \A c \in Categories :
         \A item \in ItemsOf(catalog[c]) :
           item.isAllTime => item.id \in BucketIds(catalog.allTime)

\* C7: after update(id, newItem) of an existing item with newItem.isAllTime
\* false (and newItem.id = id), allTime holds no entry with that id and a
\* primary bucket still holds the item
C7_UnfavoriteKeepsItem ==
  (/\ lastCall.op \in UpdateOps
   /\ lastCall.log = "updated"
   /\ ~crashed
   /\ ~lastCall.item.isAllTime
   /\ lastCall.item.id = lastCall.id)
    => /\ lastCall.id \notin BucketIds(Current(lastCall.op).allTime)
       /\ \E c \in PrimaryCategories : lastCall.id \in BucketIds(Current(lastCall.op)[c])

\* C8: after delete(id, category), with category one of the five buckets, no
\* bucket of the catalog holds an item with that id
C8_DeleteIsComplete ==
  (lastCall.op \in DeleteOps /\ ~crashed /\ lastCall.category \in Categories)
    => lastCall.id \notin CatalogIds(Current(lastCall.op))

\* a bucket without its k-th element (k counted from 1)
Without(bucket, k) ==
  [n \in 1 .. Len(bucket) - 1 |-> IF n < k THEN bucket[n] ELSE bucket[n + 1]]

\* indices i and j (counted from 0) are in range for the bucket
InRange(bucket, i) == i >= 0 /\ i < Len(bucket)

\* C9: reorder(category, i, j) with i # j both in range puts the element that
\* was at index i at index j, keeps the others in their order, and leaves
\* every other bucket and the other catalog as they were
C9_ReorderMovesOne ==
  [][(/\ lastCall'.op \in ReorderOps
      /\ lastCall'.category \in Categories
      /\ InRange(Before(lastCall'.op)[lastCall'.category], lastCall'.fromIndex)
      /\ InRange(Before(lastCall'.op)[lastCall'.category], lastCall'.toIndex)
      /\ lastCall'.fromIndex # lastCall'.toIndex)
       => LET before == Before(lastCall'.op)
              after == After(lastCall'.op)
              c == lastCall'.category
              i == lastCall'.fromIndex + 1
              j == lastCall'.toIndex + 1
          IN  /\ ~crashed'
              /\ Len(after[c]) = Len(before[c])
              /\ after[c][j] = before[c][i]
              /\ Without(after[c], j) = Without(before[c], i)
              /\ \A other \in Categories \ {c} : after[other] = before[other]
              /\ OtherUnchanged(lastCall'.op)]_vars

\* C9 witness: a reorder moved the first element of a bucket of two or more
\* items to its end, where it now is
C9_Witness ==
  /\ lastCall.op \in ReorderOps
  /\ lastCall.category \in Categories
  /\ ~crashed
  /\ LET bucket == Current(lastCall.op)[lastCall.category]
     IN  /\ Len(bucket) >= 2
         /\ \A i \in DOMAIN bucket : bucket[i] # undefined
         /\ lastCall.fromIndex = 0
         /\ lastCall.toIndex = Len(bucket) - 1
         /\ bucket[Len(bucket)].id = 1

\* C10: reorder(category, fromIndex, toIndex) with equal indices, or with an
\* index out of range, leaves the catalog as it was
C10_ReorderOutOfRangeIsNoOp ==
  [][(/\ lastCall'.op \in ReorderOps
      /\ lastCall'.category \in Categories
      /\ \/ lastCall'.fromIndex = lastCall'.toIndex
         \/ ~InRange(Before(lastCall'.op)[lastCall'.category], lastCall'.fromIndex)
         \/ ~InRange(Before(lastCall'.op)[lastCall'.category], lastCall'.toIndex))
       => /\ ~crashed'
          /\ After(lastCall'.op) = Before(lastCall'.op)]_vars

\* C11: update(id, newItem) with an id that no bucket holds leaves every
\* bucket of the catalog, allTime included, as it was
C11_UpdateOfUnknownIdIsNoOp ==
  [][(/\ lastCall'.op \in UpdateOps
      /\ lastCall'.id \notin CatalogIds(Before(lastCall'.op)))
       => /\ ~crashed'
          /\ After(lastCall'.op) = Before(lastCall'.op)]_vars

\* C12: an add rejected as a duplicate leaves both catalogs as they were,
\* allTime included
C12_RejectedAddIsNoOp ==
  [][(/\ lastCall'.op \in AddOps
      /\ lastCall'.item.category \in Categories
      /\ Matching(Before(lastCall'.op)[lastCall'.item.category], lastCall'.item) # {})
       => /\ ~crashed'
          /\ books' = books
          /\ movies' = movies]_vars

\* C13: an add, update, delete or reorder called with a category that is not
\* one of the five buckets leaves both catalogs as they were and does not throw
C13_UnknownCategoryIsRejected ==
  [][(\/ /\ lastCall'.op \in AddOps \cup UpdateOps
         /\ lastCall'.item.category \notin Categories
      \/ /\ lastCall'.op \in DeleteOps \cup ReorderOps
         /\ lastCall'.category \notin Categories)
       => /\ ~crashed'
          /\ books' = books
          /\ movies' = movies]_vars

\* add called on each <<item, random>> of a batch, in order
RECURSIVE addEach(_, _, _)
addEach(catalog, batch, k) ==
  IF k > Len(batch) THEN catalog
  ELSE addEach(Commit(catalog, add(catalog, batch[k][1], Epoch, batch[k][2])), batch, k + 1)

\* a catalog with the ids of its items forgotten
WithoutIds(catalog) ==
  [c \in Categories |->
     [i \in DOMAIN catalog[c] |->
        IF catalog[c][i] = undefined THEN undefined ELSE [catalog[c][i] EXCEPT !.id = 0]]]

\* C14: importItems leaves each catalog, ids apart, as add called on each
\* item of the batch in order would leave it
C14_ImportIsAddOnEach ==
  [][(lastCall'.op = "importItems" /\ ~AnyHole(books) /\ ~AnyHole(movies))
       => /\ ~crashed'
          /\ WithoutIds(books') = WithoutIds(addEach(books, lastCall'.importedBooks, 1))
          /\ WithoutIds(movies') = WithoutIds(addEach(movies, lastCall'.importedMovies, 1))]_vars

\* C15: a step that changes a catalog or a goal schedules a notification of
\* the listeners
C15_EveryChangeNotifies ==
  [][(\/ books' # books
      \/ movies' # movies
      \/ bookGoal' # bookGoal
      \/ movieGoal' # movieGoal)
       => /\ globalStateVersion' > globalStateVersion
          /\ timers' > timers]_vars

\* C16: the i-th notification a listener receives carries the version of the
\* i-th notifyStateChange
C16_OneTokenPerMutation ==
  \A listener \in Listeners :
    \A i \in DOMAIN received[listener] : received[listener][i] = i

\* C17: a listener is called only in a turn of the event loop of its own,
\* never in the step of a handler's call
C17_DeliveryIsDeferred ==
  [][(\E listener \in Listeners : received'[listener] # received[listener])
       => /\ calls' = calls
          /\ lastCall' = lastCall
          /\ timers' = timers - 1
          /\ globalStateVersion' = globalStateVersion]_vars

\* C17 witness: an add has stored its item and returned, its notification is
\* scheduled and no listener has been called
C17_Witness ==
  /\ lastCall.op \in AddOps
  /\ lastCall.log = "added"
  /\ globalStateVersion = 1
  /\ timers = 1
  /\ \A listener \in Listeners : received[listener] = <<>>

\* C18: a call of generateComprehensiveExport leaves both catalogs, both
\* goals, the list of listeners and the version counter as they were, and
\* schedules no notification and delivers none
C18_ExportChangesNothing ==
  [][lastCall'.op = "generateComprehensiveExport" /\ calls' # calls
       => /\ books' = books
          /\ movies' = movies
          /\ bookGoal' = bookGoal
          /\ movieGoal' = movieGoal
          /\ stateChangeListeners' = stateChangeListeners
          /\ globalStateVersion' = globalStateVersion
          /\ timers' = timers
          /\ received' = received
          /\ modal' = modal]_vars

\* C18 witness: an export ran on a catalog that an add had changed and whose
\* notification was still to be delivered
C18_Witness ==
  /\ lastCall.op = "generateComprehensiveExport"
  /\ lastCall.log = "exported"
  /\ books # initialBooks
  /\ globalStateVersion = 1
  /\ timers = 1
  /\ Len(lastCall.text) > 0

\* the segments of the optional fields of an exported item line (format,
\* rating, percentage, completed date, source, all-time marker, notes), in the
\* order of the format
SegmentMarks ==
  << <<" ", "[">>,
     <<" ", "U+2B50", " ">>,
     <<"%", " ", "c", "o", "m", "p", "l", "e", "t", "e", ")">>,
     <<" ", "-", " ", "C", "o", "m", "p", "l", "e", "t", "e", "d", ":", " ">>,
     <<" ", "-", " ", "S", "o", "u", "r", "c", "e", ":", " ">>,
     <<" ", "U+1F3C6", " ", "A", "L", "L", "-", "T", "I", "M", "E", " ", "F", "A", "V",
       "O", "R", "I", "T", "E">>,
     <<"\n", " ", " ", " ", "N", "o", "t", "e", "s", ":", " ", "\"">> >>

\* whether the item carries each of these fields
FieldsPresent(item) ==
  <<item.format # NoString, item.rating # Undefined, item.percentage # Undefined,
    item.completedDate # NoString, item.source # NoString, item.isAllTime,
    item.notes # NoString>>

\* where each segment starts in a text, 0 if the text has not got it
SegmentStarts(text) == [k \in DOMAIN SegmentMarks |-> IndexOf(text, SegmentMarks[k], 1)]

\* <index>. "<title>" by <author> (<year>)
LinePrefix(item, index) ==
  NumberText(index + 1) \o <<".", " ", "\"">> \o item.title
    \o <<"\"", " ", "b", "y", " ">> \o item.author
    \o <<" ", "(">> \o NumberText(item.year) \o <<")">>

\* C19: the line of an item starts with the prefix, has the segment of an
\* optional field if and only if the item carries the field, and the segments
\* it has stand in the fixed order
C19_EmittedIffPresent ==
  (lastCall.op = "formatItem" /\ lastCall.log = "formatted")
    => LET starts == SegmentStarts(lastCall.text)
           prefix == LinePrefix(lastCall.item, lastCall.index)
       IN  /\ SubSeq(lastCall.text, 1, Len(prefix)) = prefix
           /\ \A k \in DOMAIN SegmentMarks : starts[k] # 0 <=> FieldsPresent(lastCall.item)[k]
           /\ \A k, l \in DOMAIN SegmentMarks :
                (k < l /\ starts[k] # 0 /\ starts[l] # 0) => starts[k] < starts[l]

\* the title, author, year, rating and category of an item or of a candidate
RoundTripFields(item) ==
  [title |-> item.title, author |-> item.author,
   year |-> IF "year" \in DOMAIN item THEN item.year ELSE Undefined,
   rating |-> IF "rating" \in DOMAIN item THEN item.rating ELSE Undefined,
   category |-> item.category]

\* the items an export prints, section by section
ExportedItems ==
  books.completed \o books.inProgress \o books.planned \o books.fails \o books.allTime
    \o movies.completed \o movies.inProgress \o movies.planned \o movies.fails
    \o movies.allTime

\* how often a sequence of items has an item with the fields r
TimesIn(items, r) == Cardinality({i \in DOMAIN items : RoundTripFields(items[i]) = r})

\* C20: the candidates parsed from an export of the catalogs are the exported items, one
\* candidate for each with its title, author, year, rating and category, and
\* no others
C20_ParseOfExportGivesItems ==
  (/\ modal.showPreview
   /\ lastCall.op = "handleParseText"
   /\ ~AnyHole(books) /\ ~AnyHole(movies)
   /\ lastCall.text = exportText)
    => /\ Len(modal.parsedItems) = Len(ExportedItems)
       /\ \A i \in DOMAIN ExportedItems :
            TimesIn(modal.parsedItems, RoundTripFields(ExportedItems[i]))
              = TimesIn(ExportedItems, RoundTripFields(ExportedItems[i]))
(***************************************************************************)
(* Claims about parseImportText, read off the modal after the parse timer  *)
(* has stored the candidates of the text that was parsed.                  *)
(***************************************************************************)
\* the parse of lastCall.text is on show
Parsed == modal.showPreview /\ lastCall.op = "handleParseText"

\* the lines of a text that are not blank
LinesOf(text) == SelectSeq(split(text), LAMBDA line : trim(line) # <<>>)

\* the text is one line
OneLine(text) == Len(LinesOf(text)) = 1 /\ LinesOf(text)[1] = text

\* C21: the line `1. "Project Hail Mary" by Andy Weir (2021) <star> 5/5`
\* parsed with no header before it gives exactly one candidate, with that
\* title, author Andy Weir, year 2021, rating 5 and a confidence of at least
\* 0.8; and any one item line with a star-emoji rating gives a candidate
C21_StarRatedLineGivesCandidate ==
  /\ (Parsed /\ lastCall.text = <<"1", ".", " ", "\"", "P", "r", "o", "j", "e", "c", "t", " ", "H", "a", "i", "l", " ", "M", "a", "r", "y", "\"", " ", "b", "y", " ", "A", "n", "d", "y", " ", "W", "e", "i", "r", " ", "(", "2", "0",   "2", "1", ")", " ", "U+2B50", " ", "5", "/", "5">>)
       => /\ Len(modal.parsedItems) = 1
          /\ modal.parsedItems[1].title = <<"P", "r", "o", "j", "e", "c", "t", " ", "H", "a", "i", "l", " ", "M", "a", "r", "y">>
          /\ modal.parsedItems[1].author = <<"A", "n", "d", "y", " ", "W", "e", "i", "r">>
          /\ modal.parsedItems[1].year = 2021
          /\ modal.parsedItems[1].rating = 5
          /\ modal.parsedItems[1].confidence >= 8
  /\ (Parsed /\ OneLine(lastCall.text) /\ Includes(lastCall.text, <<"U+2B50">>))
       => Len(modal.parsedItems) = 1

\* C22: the line `Oppenheimer - Christopher Nolan (2023)` parsed with no
\* header before it gives one candidate with title Oppenheimer, author
\* Christopher Nolan, year 2023, and isBook false
C22_DashedLineIsAMovie ==
  (Parsed /\ lastCall.text = <<"O", "p", "p", "e", "n", "h", "e", "i", "m", "e", "r", " ", "-", " ", "C", "h", "r", "i", "s", "t", "o", "p", "h", "e", "r", " ", "N", "o", "l", "a", "n", " ", "(", "2", "0", "2", "3", ")">>)
    => /\ Len(modal.parsedItems) = 1
       /\ modal.parsedItems[1].title = <<"O", "p", "p", "e", "n", "h", "e", "i", "m", "e", "r">>
       /\ modal.parsedItems[1].author = <<"C", "h", "r", "i", "s", "t", "o", "p", "h", "e", "r", " ", "N", "o", "l", "a", "n">>
       /\ modal.parsedItems[1].year = 2023
       /\ modal.parsedItems[1].isBook = FALSE

\* a one-line text none of the four patterns matches and that has no year,
\* rating or format
BareLine(text) ==
  /\ OneLine(text)
  /\ titleAndAuthor(trim(itemTextOf(text))) = NoMatch
  /\ yearOf(trim(itemTextOf(text))) = Undefined
  /\ ratingOf(trim(itemTextOf(text))) = Undefined
  /\ formatOf(trim(itemTextOf(text))) = <<>>

\* C23 as stated: every such line gives one candidate with author "Unknown"
\* and confidence exactly 0.5
C23_EveryBareLineIsUnknownAtHalf ==
  (Parsed /\ BareLine(lastCall.text))
    => /\ Len(modal.parsedItems) = 1
       /\ modal.parsedItems[1].author = Unknown
       /\ modal.parsedItems[1].confidence = 5

\* C23: a line none of the four patterns matches, that has no year, rating or
\* format, that is no section header or skipped line and whose title has at
\* least two characters gives one candidate with author "Unknown" and
\* confidence exactly 0.5
C23_BareItemLineIsUnknownAtHalf ==
  (/\ Parsed
   /\ BareLine(lastCall.text)
   /\ ~headerOf(toLowerCase(lastCall.text)).header
   /\ ~skipped(toLowerCase(lastCall.text))
   /\ Len(bareTitle(trim(itemTextOf(lastCall.text)))) > 1)
    => /\ Len(modal.parsedItems) = 1
       /\ modal.parsedItems[1].author = Unknown
       /\ modal.parsedItems[1].confidence = 5

\* C23 witness: `Some Untitled Thing` was parsed into its one candidate
C23_Witness ==
  /\ Parsed
  /\ lastCall.text = <<"S", "o", "m", "e", " ", "U", "n", "t", "i", "t", "l", "e", "d", " ", "T", "h", "i", "n", "g">>
  /\ BareLine(lastCall.text)
  /\ Len(modal.parsedItems) = 1
  /\ modal.parsedItems[1].title = <<"S", "o", "m", "e", " ", "U", "n", "t", "i", "t", "l", "e", "d", " ", "T", "h", "i", "n", "g">>
  /\ modal.parsedItems[1].author = Unknown
  /\ modal.parsedItems[1].confidence = 5

\* the header rules in the order C27 gives them, each with the category it
\* sets and the type it sets ("kind": the type the line's keywords name, if
\* any; "": none)
HeaderRules ==
  << [rule |-> "completedBook", category |-> "completed", type |-> "book"],
     [rule |-> "completedMovie", category |-> "completed", type |-> "movie"],
     [rule |-> "inProgress", category |-> "inProgress", type |-> "kind"],
     [rule |-> "planned", category |-> "planned", type |-> "kind"],
     [rule |-> "fails", category |-> "fails", type |-> ""],
     [rule |-> "allTime", category |-> "allTime", type |-> ""] >>

\* whether the k-th header rule matches a line
RuleMatches(k, lowerLine) ==
  IF k = 1 THEN Includes(lowerLine, <<"b", "o", "o", "k">>)
                  /\ SomeIncluded(lowerLine, completedKeywords)
  ELSE IF k = 2 THEN Includes(lowerLine, <<"m", "o", "v", "i", "e">>)
                       /\ SomeIncluded(lowerLine, completedKeywords)
  ELSE IF k = 3 THEN SomeIncluded(lowerLine, inProgressKeywords)
  ELSE IF k = 4 THEN SomeIncluded(lowerLine, plannedKeywords)
  ELSE IF k = 5 THEN SomeIncluded(lowerLine, failsKeywords)
  ELSE SomeIncluded(lowerLine, allTimeKeywords)

\* the first header rule that matches a line, 0 if none does
FirstRule(lowerLine) ==
  LET matching == {k \in DOMAIN HeaderRules : RuleMatches(k, lowerLine)}
  IN  IF matching = {} THEN 0 ELSE First(matching)

\* the type in force after a header line that the k-th rule took
TypeAfter(k, lowerLine, currentType) ==
  IF HeaderRules[k].type = "" THEN currentType
  ELSE IF HeaderRules[k].type # "kind" THEN HeaderRules[k].type
  ELSE IF kindOf(lowerLine) = "" THEN currentType
  ELSE kindOf(lowerLine)

\* the category and the isBook of each candidate of the lines from line k on,
\* by C27: a header line gives none and sets the category, and the type where
\* its rule sets one; an item line gives one under the category and the type
\* in force
RECURSIVE Expected(_, _, _, _)
Expected(lines, k, currentCategory, currentType) ==
  IF k > Len(lines) THEN <<>>
  ELSE LET lowerLine == toLowerCase(lines[k])
           rule == FirstRule(lowerLine)
       IN  IF rule # 0
           THEN Expected(lines, k + 1, HeaderRules[rule].category,
                         TypeAfter(rule, lowerLine, currentType))
           ELSE (IF skipped(lowerLine) \/ itemsOf(lines[k], "completed", "unknown") = <<>>
                 THEN <<>>
                 ELSE <<[category |-> currentCategory,
                         isBook |-> isBookOf(lowerLine, currentType)]>>)
                  \o Expected(lines, k + 1, currentCategory, currentType)

C28_ConfidenceIsTheSumOfBonuses ==
  Parsed
    => \A i \in DOMAIN modal.parsedItems :
         LET item == modal.parsedItems[i]
         IN  /\ item.confidence \in 5 .. 10
             /\ item.confidence
                  = Min(10, 5 + (IF item.title # <<>> /\ item.author # Unknown THEN 3 ELSE 0)
                              + (IF item.year # Undefined THEN 1 ELSE 0)
                              + (IF item.rating # Undefined THEN 1 ELSE 0)
                              + (IF item.format # <<>> THEN 1 ELSE 0))
(***************************************************************************)
(* Claims about the ids in the catalogs.                                   *)
(***************************************************************************)
\* how often a bucket holds an id
TimesHeld(bucket, id) ==
  Cardinality({i \in DOMAIN bucket : bucket[i] # undefined /\ bucket[i].id = id})

\* C24: in every state an id is in at most one of the four primary buckets of
\* its catalog, and at most once in any bucket, allTime included
C24_IdInOneBucketOnce ==
  \A catalog \in {books, movies} :
    /\ \A c1, c2 \in PrimaryCategories :
         c1 # c2 => BucketIds(catalog[c1]) \cap BucketIds(catalog[c2]) = {}
    /\ \A c \in Categories :
         \A id \in BucketIds(catalog[c]) : TimesHeld(catalog[c], id) = 1

\* C25: after update(id, newItem) of an existing item into a primary bucket,
\* the item stored there carries the id that was passed, whatever newItem.id
\* is; so does its entry in allTime if newItem.isAllTime; and no other
\* primary bucket holds that id
C25_UpdateKeepsTheId ==
  (/\ lastCall.op \in UpdateOps
   /\ lastCall.log = "updated"
   /\ ~crashed
   /\ lastCall.item.category \in PrimaryCategories)
    => LET catalog == Current(lastCall.op)
           bucket == catalog[lastCall.item.category]
       IN  /\ bucket # <<>>
           /\ bucket[Len(bucket)].id = lastCall.id
           /\ lastCall.item.isAllTime => lastCall.id \in BucketIds(catalog.allTime)
           /\ \A c \in PrimaryCategories \ {lastCall.item.category} :
                lastCall.id \notin BucketIds(catalog[c])

\* the last call stored an item as a favourite in a primary bucket
FavoriteStored(call) ==
  /\ call.op \in UpdateOps
  /\ call.log = "updated"
  /\ call.item.isAllTime
  /\ call.item.category \in PrimaryCategories

Registered(registry) == {registry[k] : k \in DOMAIN registry}

\* C29: a listener that is not in the registry is not called, also not by a
\* notification that was scheduled while it was in it; a step that takes a
\* listener out takes out that one entry and leaves the others in their
\* order; and a delivery calls every listener that is in the registry
C29_UnregisteredIsNeverCalled ==
  [][/\ \A listener \in Listeners :
          listener \notin Registered(stateChangeListeners)
            => received'[listener] = received[listener]
     /\ Len(stateChangeListeners') < Len(stateChangeListeners)
          => \E k \in DOMAIN stateChangeListeners :
               stateChangeListeners' = Without(stateChangeListeners, k)
     /\ received' # received
          => \A listener \in Registered(stateChangeListeners) :
               received'[listener] = Append(received[listener], globalStateVersion)]_vars

\* C29 witness: a listener left the registry while the one notification was
\* pending, which then was delivered to the other listener and not to it
C29_Witness ==
  /\ lastCall.op = "unmount"
  /\ lastCall.pending = 1
  /\ globalStateVersion = 1
  /\ timers = 0
  /\ received[lastCall.listener] = <<>>
  /\ \E other \in Listeners \ {lastCall.listener} : received[other] = <<1>>

\* C30: while the modal is closed after handleClose, its state is reset:
\* importText empty, parsedItems empty, showPreview false, isProcessing
\* false, also if a parse timer was pending when it was closed
C30_ClosedModalStaysReset ==
  (lastCall.op = "handleClose" /\ ~modal.visible)
    => /\ modal.importText = <<>>
       /\ modal.parsedItems = <<>>
       /\ ~modal.showPreview
       /\ ~modal.isProcessing

====
